---- MODULE Spec2Model ----
(***************************************************************************)
(* Model of the tractatus inventory collector: the cloud-tag classifier,   *)
(* the AWS and GitHub data sources, single-source collection, the          *)
(* concurrent multi-account collection and the merge of inventories.       *)
(* Strings are TLA+ strings; Len, \o and SubSeq act on them character by   *)
(* character, so prefixes and formatted messages are computed, not         *)
(* abstracted.                                                             *)
(***************************************************************************)
EXTENDS Integers, Sequences, FiniteSets, TLC

\* ------------------------------------------------------------------ bounds
\* longest list of account names handed to CollectFromAccounts
MaxTargets == 3
\* longest resource list a backend returns for one account
MaxRes == 1
\* most pages the tagging API holds for an account
MaxPages == 3
\* most colon-separated segments of a resource identifier
MaxSegments == 4
\* most paths of a file listing handed to the Detector
MaxFiles == 3
\* most lines of a CODEOWNERS text
MaxLines == 3
\* most repositories ListRepositories returns
MaxRepos == 2
\* longest list of inventories handed to MergeInventories
MaxInvs == 2
\* longest Resources sequence of an inventory handed to MergeInventories
MaxInvLen == 3

\* the nil error
Nil == "<nil>"

\* the nil *Inventory
NilInventory == [isNil |-> TRUE]

\* ------------------------------------------------------------ string helpers
\* strings.HasPrefix
HasPrefix(s, prefix) ==
    Len(s) >= Len(prefix) /\ SubSeq(s, 1, Len(prefix)) = prefix

\* strings.Contains
Contains(s, substr) ==
    \E i \in 1..(Len(s) - Len(substr) + 1) :
        SubSeq(s, i, i + Len(substr) - 1) = substr

\* strings.TrimSuffix
TrimSuffix(s, suffix) ==
    IF Len(s) >= Len(suffix) /\ SubSeq(s, Len(s) - Len(suffix) + 1, Len(s)) = suffix
    THEN SubSeq(s, 1, Len(s) - Len(suffix))
    ELSE s

\* tag lookup with the comma-ok idiom: v, exists := tags[k]
Has(tags, k) == k \in DOMAIN tags

\* the empty tag map
EmptyTags == [k \in {} |-> ""]

\* ---------------------------------------------------- cloud-tag classifier
\* inventory.Collector.enrichResources: awsclient.Resource -> ResourceInfo
enrichResources(res) ==
    [ Platform     |-> res.Platform,
      Account      |-> res.Account,
      ARN          |-> res.ARN,
      ResourceTags |-> res.Tags,
      AppName      |-> IF Has(res.Tags, "Name") THEN res.Tags["Name"]
                       ELSE IF Has(res.Tags, "aws:cloudformation:logical-id")
                            THEN res.Tags["aws:cloudformation:logical-id"]
                       ELSE "Unknown",
      Owner        |-> IF Has(res.Tags, "owned-by") THEN res.Tags["owned-by"]
                       ELSE IF Has(res.Tags, "team") THEN res.Tags["team"]
                       ELSE "Unknown",
      Team         |-> IF Has(res.Tags, "team") THEN res.Tags["team"]
                       ELSE IF Has(res.Tags, "owned-by") THEN res.Tags["owned-by"]
                       ELSE "Unknown",
      StackName    |-> IF Has(res.Tags, "aws:cloudformation:stack-name")
                       THEN res.Tags["aws:cloudformation:stack-name"]
                       ELSE "None",
      HasCICD      |-> Has(res.Tags, "aws:cloudformation:stack-name") ]

\* a variant of the Owner cascade without the fallback to the team tag
ownerFromTagsNoFallback(tags) ==
    IF Has(tags, "owned-by") THEN tags["owned-by"] ELSE "Unknown"

\* enrichResource, "Extract Owner": owned-by tag, else team tag, else "Unknown"
ownerFromTags(tags) ==
    IF Has(tags, "owned-by") THEN tags["owned-by"]
    ELSE IF Has(tags, "team") THEN tags["team"]
    ELSE "Unknown"

\* a variant of the Team cascade whose default is the zero string
teamFromTagsNoDefault(tags) ==
    IF Has(tags, "team") THEN tags["team"]
    ELSE IF Has(tags, "owned-by") THEN tags["owned-by"]
    ELSE ""

\* enrichResource, "Extract Team": team tag, else owned-by tag, else "Unknown"
teamFromTags(tags) ==
    IF Has(tags, "team") THEN tags["team"]
    ELSE IF Has(tags, "owned-by") THEN tags["owned-by"]
    ELSE "Unknown"

\* a variant of the AppName cascade that prefers the logical-id tag
appNameLogicalIdFirst(tags) ==
    IF Has(tags, "aws:cloudformation:logical-id") THEN tags["aws:cloudformation:logical-id"]
    ELSE IF Has(tags, "Name") THEN tags["Name"]
    ELSE "Unknown"

\* enrichResource, "Extract AppName": Name tag, else logical-id tag, else "Unknown"
appNameFromTags(tags) ==
    IF Has(tags, "Name") THEN tags["Name"]
    ELSE IF Has(tags, "aws:cloudformation:logical-id")
         THEN tags["aws:cloudformation:logical-id"]
    ELSE "Unknown"

\* a variant of the stack branch that looks at the tag's value
stackFromTagsByValue(tags) ==
    IF Has(tags, "aws:cloudformation:stack-name")
       /\ tags["aws:cloudformation:stack-name"] # ""
    THEN [StackName |-> tags["aws:cloudformation:stack-name"], HasCICD |-> TRUE,
          CICDPlatform |-> "CloudFormation"]
    ELSE [StackName |-> "None", HasCICD |-> FALSE, CICDPlatform |-> ""]

\* enrichResource, "Check for CloudFormation stack"
stackFromTags(tags) ==
    IF Has(tags, "aws:cloudformation:stack-name")
    THEN [StackName |-> tags["aws:cloudformation:stack-name"], HasCICD |-> TRUE,
          CICDPlatform |-> "CloudFormation"]
    ELSE [StackName |-> "None", HasCICD |-> FALSE, CICDPlatform |-> ""]

\* aws DataSource: enrichResource: Resource -> inventory.ResourceInfo
enrichResource(res) ==
    [ Platform     |-> res.Platform,
      Account      |-> res.Account,
      ARN          |-> res.ARN,
      ResourceTags |-> res.Tags,
      AppName      |-> appNameFromTags(res.Tags),
      Owner        |-> ownerFromTags(res.Tags),
      Team         |-> teamFromTags(res.Tags),
      StackName    |-> stackFromTags(res.Tags).StackName,
      HasCICD      |-> stackFromTags(res.Tags).HasCICD,
      CICDPlatform |-> stackFromTags(res.Tags).CICDPlatform ]

\* ------------------------------------------------------------- AWS client
\* parseARN: split on ':'; the piece after the last colon is kept only when
\* it is not empty
RECURSIVE parseARNFrom(_, _, _, _)
parseARNFrom(arn, i, parts, current) ==
    IF i > Len(arn)
    THEN IF current # "" THEN Append(parts, current) ELSE parts
    ELSE IF SubSeq(arn, i, i) = ":"
         THEN parseARNFrom(arn, i + 1, Append(parts, current), "")
         ELSE parseARNFrom(arn, i + 1, parts, current \o SubSeq(arn, i, i))

parseARN(arn) == parseARNFrom(arn, 1, <<>>, "")

\* platformMap of extractPlatformFromARN
platformMap ==
    [service \in {"ec2", "lambda", "ecs", "elasticbeanstalk", "lightsail", "apprunner"} |->
        CASE service = "ec2" -> "EC2"
          [] service = "lambda" -> "Lambda"
          [] service = "ecs" -> "ECS"
          [] service = "elasticbeanstalk" -> "Elastic Beanstalk"
          [] service = "lightsail" -> "Lightsail"
          [] service = "apprunner" -> "App Runner"]

\* a variant of extractPlatformFromARN without the pass-through of a service
\* the table does not hold
extractPlatformTableOnly(arn) ==
    LET parts == parseARN(arn) IN
      IF Len(parts) < 3 THEN "unknown"
      ELSE IF parts[3] \in DOMAIN platformMap THEN platformMap[parts[3]]
      ELSE "unknown"

\* extractPlatformFromARN
extractPlatformFromARN(arn) ==
    LET parts == parseARN(arn) IN
      IF Len(parts) < 3 THEN "unknown"
      ELSE IF parts[3] \in DOMAIN platformMap THEN platformMap[parts[3]]
      ELSE parts[3]

\* the loop of processResource over mapping.Tags: a tag with a nil key or a
\* nil value is left out, a repeated key keeps its last value
RECURSIVE tagsOf(_)
tagsOf(tagList) ==
    IF tagList = <<>> THEN EmptyTags
    ELSE LET before == tagsOf(SubSeq(tagList, 1, Len(tagList) - 1))
             tag    == tagList[Len(tagList)]
         IN IF tag.Key # Nil /\ tag.Value # Nil
            THEN [k \in DOMAIN before \cup {tag.Key} |->
                    IF k = tag.Key THEN tag.Value ELSE before[k]]
            ELSE before

\* Client.processResource
processResource(mapping, accountName) ==
    [ ARN      |-> mapping.ResourceARN,
      Tags     |-> tagsOf(mapping.Tags),
      Platform |-> extractPlatformFromARN(mapping.ResourceARN),
      Account  |-> accountName ]

\* a variant of isEKSResource that forgets the nodegroup tag
isEKSResourceNoNodegroup(tags) ==
    Has(tags, "aws:eks:cluster-name") \/ Has(tags, "eks:cluster-name")

\* isEKSResource
isEKSResource(tags) ==
    \/ Has(tags, "aws:eks:cluster-name")
    \/ Has(tags, "eks:nodegroup-name")
    \/ Has(tags, "eks:cluster-name")

\* --------------------------------------------------------- more strings
\* strings.TrimPrefix
TrimPrefix(s, prefix) ==
    IF HasPrefix(s, prefix) THEN SubSeq(s, Len(prefix) + 1, Len(s)) ELSE s

\* unicode.IsSpace on the characters a CODEOWNERS file holds
IsSpace(c) == c \in {" ", "\t", "\n", "\r", "\f"}

\* strings.Split(s, sep) for a one-character separator: the pieces between
\* separators, the empty ones included
RECURSIVE SplitFrom(_, _, _, _, _)
SplitFrom(s, sep, i, parts, current) ==
    IF i > Len(s) THEN Append(parts, current)
    ELSE IF SubSeq(s, i, i) = sep
         THEN SplitFrom(s, sep, i + 1, Append(parts, current), "")
         ELSE SplitFrom(s, sep, i + 1, parts, current \o SubSeq(s, i, i))

Split(s, sep) == SplitFrom(s, sep, 1, <<>>, "")

\* strings.TrimSpace
RECURSIVE TrimSpace(_)
TrimSpace(s) ==
    IF s = "" THEN s
    ELSE IF IsSpace(SubSeq(s, 1, 1)) THEN TrimSpace(SubSeq(s, 2, Len(s)))
    ELSE IF IsSpace(SubSeq(s, Len(s), Len(s))) THEN TrimSpace(SubSeq(s, 1, Len(s) - 1))
    ELSE s

\* strings.Fields: the maximal runs of non-space characters
RECURSIVE FieldsFrom(_, _, _, _)
FieldsFrom(s, i, parts, current) ==
    IF i > Len(s)
    THEN IF current # "" THEN Append(parts, current) ELSE parts
    ELSE IF IsSpace(SubSeq(s, i, i))
         THEN FieldsFrom(s, i + 1, IF current # "" THEN Append(parts, current) ELSE parts, "")
         ELSE FieldsFrom(s, i + 1, parts, current \o SubSeq(s, i, i))

Fields(s) == FieldsFrom(s, 1, <<>>, "")

\* -------------------------------------------------------- github Detector
\* a variant of the table in which two patterns match one path
cicdFilesOverlapping ==
    { [pattern |-> ".circleci/config.yml", platform |-> "CircleCI"],
      [pattern |-> ".github", platform |-> "GitHub"],
      [pattern |-> ".github/workflows", platform |-> "GitHub Actions"],
      [pattern |-> "bitbucket-pipelines.yml", platform |-> "Bitbucket Pipelines"],
      [pattern |-> ".gitlab-ci.yml", platform |-> "GitLab CI"],
      [pattern |-> "Jenkinsfile", platform |-> "Jenkins"],
      [pattern |-> ".travis.yml", platform |-> "Travis CI"],
      [pattern |-> "azure-pipelines.yml", platform |-> "Azure Pipelines"] }

\* cicdFiles: pattern -> platform (a Go map: ranged over in no fixed order)
cicdFiles ==
    { [pattern |-> ".circleci/config.yml", platform |-> "CircleCI"],
      [pattern |-> ".github/workflows", platform |-> "GitHub Actions"],
      [pattern |-> "bitbucket-pipelines.yml", platform |-> "Bitbucket Pipelines"],
      [pattern |-> ".gitlab-ci.yml", platform |-> "GitLab CI"],
      [pattern |-> "Jenkinsfile", platform |-> "Jenkins"],
      [pattern |-> ".travis.yml", platform |-> "Travis CI"],
      [pattern |-> "azure-pipelines.yml", platform |-> "Azure Pipelines"] }

testDirs == <<"test/", "tests/", "__tests__/", "spec/", "test_suite/", "testing/">>

eksIndicators ==
    <<"k8s/", "kubernetes/", ".kube/", "helm/", "Chart.yaml",
      "kustomization.yaml", "kustomization.yml">>

ecsIndicators == <<"ecs-task-definition.json", "ecs-service.json", "Dockerfile">>

lambdaIndicators ==
    <<"serverless.yml", "serverless.yaml", "template.yaml", "template.yml",
      "lambda/", "functions/">>

beanstalkIndicators == <<".ebextensions/", "Procfile", ".elasticbeanstalk/">>

\* testPatterns of DetectTests
testPatterns ==
    <<"_test.go", ".spec.js", ".test.js", ".spec.ts", ".test.ts", "Test.java", "test_">>

\* codeownersFiles of DetectCodeOwners
codeownersFiles == <<"CODEOWNERS", ".github/CODEOWNERS", "docs/CODEOWNERS">>

\* the condition of DetectCICD's inner loop
cicdMatches(file, pattern) == file = pattern \/ HasPrefix(file, pattern)

\* a variant of DetectCICD in which the last matching file decides
DetectCICDLastMatch(files) ==
    LET hits == {k \in DOMAIN files : \E e \in cicdFiles : cicdMatches(files[k], e.pattern)}
    IN IF hits = {} THEN {[found |-> FALSE, platform |-> ""]}
       ELSE LET last == CHOOSE k \in hits : \A j \in hits : k >= j IN
              {[found |-> TRUE, platform |-> e.platform] :
                 e \in {x \in cicdFiles : cicdMatches(files[last], x.pattern)}}

\* Detector.DetectCICD: the results it can return. The first file, in
\* listing order, that matches some pattern decides; which of the patterns
\* it matches is met first depends on the map's iteration order.
DetectCICD(files) ==
    LET hits == {k \in DOMAIN files : \E e \in cicdFiles : cicdMatches(files[k], e.pattern)}
    IN IF hits = {} THEN {[found |-> FALSE, platform |-> ""]}
       ELSE LET first == CHOOSE k \in hits : \A j \in hits : k <= j IN
              {[found |-> TRUE, platform |-> e.platform] :
                 e \in {x \in cicdFiles : cicdMatches(files[first], x.pattern)}}

\* a variant of DetectTests that looks for test files before directories
DetectTestsFilesFirst(files) ==
    IF \E f \in DOMAIN files : \E t \in DOMAIN testPatterns :
           Contains(files[f], testPatterns[t])
    THEN [found |-> TRUE, framework |-> "detected test files"]
    ELSE IF \E f \in DOMAIN files : \E t \in DOMAIN testDirs :
                files[f] = TrimSuffix(testDirs[t], "/") \/ HasPrefix(files[f], testDirs[t])
    THEN [found |-> TRUE, framework |-> "detected test directory"]
    ELSE [found |-> FALSE, framework |-> ""]

\* Detector.DetectTests
DetectTests(files) ==
    IF \E f \in DOMAIN files : \E t \in DOMAIN testDirs :
           files[f] = TrimSuffix(testDirs[t], "/") \/ HasPrefix(files[f], testDirs[t])
    THEN [found |-> TRUE, framework |-> "detected test directory"]
    ELSE IF \E f \in DOMAIN files : \E t \in DOMAIN testPatterns :
                Contains(files[f], testPatterns[t])
    THEN [found |-> TRUE, framework |-> "detected test files"]
    ELSE [found |-> FALSE, framework |-> ""]

\* a variant of IsEKS that compares whole names only
IsEKSExactOnly(files) ==
    \E f \in DOMAIN files : \E i \in DOMAIN eksIndicators :
        files[f] = eksIndicators[i]

\* Detector.IsEKS
IsEKS(files) ==
    \E f \in DOMAIN files : \E i \in DOMAIN eksIndicators :
        \/ files[f] = TrimSuffix(eksIndicators[i], "/")
        \/ HasPrefix(files[f], eksIndicators[i])

\* one of the three loops of DetectPlatform: the label once for every file
\* that matches an indicator of the set (the break leaves the inner loop only)
RECURSIVE labelsFor(_, _, _)
labelsFor(files, indicators, label) ==
    IF files = <<>> THEN <<>>
    ELSE (IF \E i \in DOMAIN indicators :
                 Head(files) = indicators[i] \/ HasPrefix(Head(files), indicators[i])
          THEN <<label>> ELSE <<>>)
         \o labelsFor(Tail(files), indicators, label)

\* strings.Join
RECURSIVE Join(_, _)
Join(parts, sep) ==
    IF parts = <<>> THEN ""
    ELSE IF Len(parts) = 1 THEN parts[1]
    ELSE parts[1] \o sep \o Join(Tail(parts), sep)

\* Detector.DetectPlatform
DetectPlatform(files) ==
    LET platforms == labelsFor(files, ecsIndicators, "ECS")
                     \o labelsFor(files, lambdaIndicators, "Lambda")
                     \o labelsFor(files, beanstalkIndicators, "Elastic Beanstalk")
    IN IF Len(platforms) = 0 THEN "Unknown" ELSE Join(platforms, ", ")

\* Detector.DetectCodeOwners
DetectCodeOwners(files) ==
    \E f \in DOMAIN files : \E c \in DOMAIN codeownersFiles :
        files[f] = codeownersFiles[c]

\* the inner loop of ParseCodeOwners over parts[1:]: every part that starts
\* with "@" is an owner, added unless already listed
RECURSIVE ownersOfParts(_, _)
ownersOfParts(parts, owners) ==
    IF parts = <<>> THEN owners
    ELSE IF HasPrefix(Head(parts), "@")
         THEN LET owner == TrimPrefix(Head(parts), "@") IN
                ownersOfParts(Tail(parts),
                              IF \E k \in DOMAIN owners : owners[k] = owner
                              THEN owners ELSE Append(owners, owner))
         ELSE ownersOfParts(Tail(parts), owners)

\* the outer loop of ParseCodeOwners over the lines
RECURSIVE ownersOfLines(_, _)
ownersOfLines(lines, owners) ==
    IF lines = <<>> THEN owners
    ELSE LET line == TrimSpace(Head(lines)) IN
           IF line = "" \/ HasPrefix(line, "#")
           THEN ownersOfLines(Tail(lines), owners)
           ELSE LET parts == Fields(line) IN
                  ownersOfLines(Tail(lines),
                                IF Len(parts) > 1
                                THEN ownersOfParts(Tail(parts), owners)
                                ELSE owners)

\* Detector.ParseCodeOwners
ParseCodeOwners(content) == ownersOfLines(Split(content, "\n"), <<>>)

\* ------------------------------------------------------------ sequences
\* all sequences over S of length at most n
SeqsUpTo(S, n) == UNION {[1..k -> S] : k \in 0..n}

\* number of positions of seq holding x
Count(seq, x) == Cardinality({i \in DOMAIN seq : seq[i] = x})

\* ------------------------------------------------ multi-account collection
VARIABLES
    accountNames,     \* argument of CollectFromAccounts
    launched,         \* iterations of the launch loop completed
    wpc,              \* wpc[i]: position of the goroutine of accountNames[i]
    backend,          \* backend[i]: what the AWS backend answered that goroutine
    wres,             \* wres[i]: (inventory, err) of the goroutine's collectFromAccount
    results,          \* buffer of the results channel
    closed,           \* the results channel is closed
    wg,               \* the WaitGroup counter
    mpc,              \* position of CollectFromAccounts itself
    cpc,              \* position of the goroutine that waits and closes
    inventories,      \* returned []*Inventory
    errors,           \* returned []error
    panicked,         \* a goroutine sent on the closed channel
    cancelRequested,  \* the caller has asked for the collection to be abandoned
    inFlightAtCancel  \* goroutines inside collectFromAccount at that moment

accVars == <<accountNames, launched, wpc, backend, wres, results, closed, wg, mpc, cpc,
             inventories, errors, panicked, cancelRequested, inFlightAtCancel>>

\* state of the other operations
VARIABLES
    mergeInput,   \* the []*Inventory handed to MergeInventories
    merged,       \* the *Inventory it returned
    mergePc       \* "call" before the call, "done" after it

mergeVars == <<mergeInput, merged, mergePc>>

VARIABLES
    sourceName,     \* what source.Name() returns
    sourceCollect,  \* what source.Collect(ctx) returns: (resources, err)
    sourceResult,   \* what CollectFromSource returned: (inventory, err)
    sourcePc        \* "call" before the call, "done" after it

srcVars == <<sourceName, sourceCollect, sourceResult, sourcePc>>

VARIABLES
    awsAccount,       \* ds.accountName
    awsPages,         \* the pages the tagging API holds for the account
    awsLastToken,     \* PaginationToken of its last page: nil or ""
    paginationToken,  \* GetResources' paginationToken
    allResources,     \* GetResources' allResources
    awsPc,            \* position of DataSource.Collect
    awsCollected,     \* resourceInfos returned by Collect
    awsErr,           \* error returned by Collect
    awsRequests       \* the PaginationToken of every call of
                      \* taggingClient.GetResources so far, in order

awsVars == <<awsAccount, awsPages, awsLastToken, paginationToken, allResources,
             awsPc, awsCollected, awsErr, awsRequests>>

VARIABLES
    clsRes,   \* the Resource handed to the classifier
    clsInfo,  \* the ResourceInfo it returned
    clsPc     \* "input" before the call, then the classifier that ran

clsVars == <<clsRes, clsInfo, clsPc>>

VARIABLES
    ghRepos,      \* what ListRepositories returns for the organization
    ghIdx,        \* repositories the loop of Collect has handled
    ghResources,  \* resources of Collect
    ghPc,         \* position of the github DataSource.Collect
    ghErr,        \* error returned by Collect
    ghLookups     \* per call of analyzeRepository: the GetFileContent calls
                  \* it issued and what getCodeOwnersContent returned

ghVars == <<ghRepos, ghIdx, ghResources, ghPc, ghErr, ghLookups>>

VARIABLES
    arnInput,     \* the resource identifier handed to extractPlatformFromARN
    arnPlatform,  \* what extractPlatformFromARN returned
    arnPc         \* "input" before the call, "done" after it

arnVars == <<arnInput, arnPlatform, arnPc>>

VARIABLES
    detFiles,  \* the file listing handed to the Detector
    detOut,    \* what the Detector returned
    detPc      \* "input" before the call, the method's name after it

detVars == <<detFiles, detOut, detPc>>

VARIABLES
    coContent,  \* the CODEOWNERS text handed to ParseCodeOwners
    coOwners,   \* the owners ParseCodeOwners returned
    coPc        \* "input" before the call, "done" after it

coVars == <<coContent, coOwners, coPc>>

VARIABLES
    twRaw,     \* the raw record classified: a cloud resource, or a repository
               \* with its CODEOWNERS text
    twFirst,   \* the ResourceInfo of the first classification
    twSecond,  \* the ResourceInfo of the second classification
    twPc       \* "input" before the two runs, "done" after them

twVars == <<twRaw, twFirst, twSecond, twPc>>

VARIABLES
    runMain,      \* "accounts": the main that collects from several accounts;
                  \* "source": the main that collects from one data source
    runArrivals,  \* accounts: what collectFromAccount returned for each
                  \* target, in the order the range loop receives them
    runSource,    \* source: the data source's Name and what its Collect returns
    runFormat,    \* the --format flag
    runResults,   \* inventories of the targets that succeeded (results of the
                  \* accounts main; result of the source main)
    runErrors,    \* errors of the targets that failed
    runWarnings,  \* "Warning: ..." lines printed
    runInventory, \* the inventory handed to the writer
    runFatal,     \* the message of log.Fatal, Nil while there is none
    runPc         \* "collect", "check", "writer", "write", "fatal", "exit"

runVars == <<runMain, runArrivals, runSource, runFormat, runResults, runErrors,
             runWarnings, runInventory, runFatal, runPc>>

VARIABLES
    gcFiles,  \* the file listing of the repository looked up
    gcFetch,  \* what GetFileContent answers for each location
    gcOut,    \* content and error returned and the locations GetFileContent
              \* was called for, in order
    gcPc      \* "input" before the lookup; after it "listed" (the lookup that
              \* goes by the listing) or "plain" (the one that does not)

gcVars == <<gcFiles, gcFetch, gcOut, gcPc>>

vars == <<accVars, mergeVars, srcVars, awsVars, clsVars, ghVars, arnVars, detVars, coVars, twVars, runVars, gcVars>>

\* what each operation leaves alone
notAccVars == <<mergeVars, srcVars, awsVars, clsVars, ghVars, arnVars, detVars, coVars, twVars, runVars, gcVars>>

notMergeVars == <<accVars, srcVars, awsVars, clsVars, ghVars, arnVars, detVars, coVars, twVars, runVars, gcVars>>

notSrcVars == <<accVars, mergeVars, awsVars, clsVars, ghVars, arnVars, detVars, coVars, twVars, runVars, gcVars>>

notAwsVars == <<accVars, mergeVars, srcVars, clsVars, ghVars, arnVars, detVars, coVars, twVars, runVars, gcVars>>

notClsVars == <<accVars, mergeVars, srcVars, awsVars, ghVars, arnVars, detVars, coVars, twVars, runVars, gcVars>>

notGhVars == <<accVars, mergeVars, srcVars, awsVars, clsVars, arnVars, detVars, coVars, twVars, runVars, gcVars>>

notArnVars == <<accVars, mergeVars, srcVars, awsVars, clsVars, ghVars, detVars, coVars, twVars, runVars, gcVars>>

notDetVars == <<accVars, mergeVars, srcVars, awsVars, clsVars, ghVars, arnVars, coVars, twVars, runVars, gcVars>>

notCoVars == <<accVars, mergeVars, srcVars, awsVars, clsVars, ghVars, arnVars, detVars, twVars, runVars, gcVars>>

notTwVars == <<accVars, mergeVars, srcVars, awsVars, clsVars, ghVars, arnVars, detVars, coVars, runVars, gcVars>>

notRunVars == <<accVars, mergeVars, srcVars, awsVars, clsVars, ghVars, arnVars, detVars, coVars, twVars, gcVars>>

notGcVars == <<accVars, mergeVars, srcVars, awsVars, clsVars, ghVars, arnVars, detVars, coVars, twVars, runVars>>

\* the lists of account names tried: "dev", "prod", "dev", ... cut at every
\* length up to MaxTargets (a name may be listed twice)
TargetLists ==
    { [i \in 1..n |-> IF i % 2 = 1 THEN "dev" ELSE "prod"] : n \in 0..MaxTargets }

\* records client.GetResources can return for an account (Account filled in
\* by the client that produced them)
SampleResources(accName) ==
    { [ARN |-> "arn:aws:ec2:us-east-1:1:instance/i-1", Platform |-> "EC2",
       Account |-> accName, Tags |-> [k \in {"team"} |-> "core"]] }

\* what the AWS backend does for one account: NewClient's error, and
\* GetResources' result and error
BackendOutcomes(accName) ==
    { [newClientErr |-> "auth failure", getResourcesErr |-> Nil, resources |-> <<>>],
      [newClientErr |-> Nil, getResourcesErr |-> "throttled", resources |-> <<>>] }
    \cup { [newClientErr |-> Nil, getResourcesErr |-> Nil, resources |-> r] :
             r \in SeqsUpTo(SampleResources(accName), MaxRes) }

\* the backend has not answered yet
NoAnswer == [newClientErr |-> Nil, getResourcesErr |-> Nil, resources |-> <<>>]

\* ctx := context.Background(): the context every goroutine shares
ctx == "Background"

\* ctx.Done() has fired: a Background context has no cancel function and no
\* deadline, so it never does, whatever the caller asks for
CtxDone(c, requested) == c # "Background" /\ requested

\* a backend call made under a context that is done fails with its error
UnderContext(done, outcome) ==
    IF done
    THEN [newClientErr |-> "context canceled", getResourcesErr |-> Nil, resources |-> <<>>]
    ELSE outcome

\* a variant of collectFromAccount that swallows a GetResources failure and
\* reports an empty inventory
collectFromAccountSwallow(accountName, answer) ==
    IF answer.newClientErr # Nil
    THEN [inventory |-> NilInventory,
          err |-> "collectFromAccount: account '" \o accountName
                  \o "': failed to create AWS client: " \o answer.newClientErr]
    ELSE [inventory |-> [Resources |->
                           [k \in 1..Len(answer.resources) |->
                               enrichResources(answer.resources[k])]],
          err |-> Nil]

\* inventory.Collector.collectFromAccount
collectFromAccount(accountName, answer) ==
    IF answer.newClientErr # Nil
    THEN [inventory |-> NilInventory,
          err |-> "collectFromAccount: account '" \o accountName
                  \o "': failed to create AWS client: " \o answer.newClientErr]
    ELSE IF answer.getResourcesErr # Nil
    THEN [inventory |-> NilInventory,
          err |-> "collectFromAccount: account '" \o accountName
                  \o "': failed to get resources: " \o answer.getResourcesErr]
    ELSE [inventory |-> [Resources |->
                           [k \in 1..Len(answer.resources) |->
                               enrichResources(answer.resources[k])]],
          err |-> Nil]

\* a result channel with room for one result only
ChanCapOne(names) == 1

\* results := make(chan accountResult, len(accountNames))
ChanCap(names) == Len(names)

\* a wg.Wait() that does not wait
WaitReturnsEarly(counter) == counter >= 0

\* wg.Wait() returns
WaitReturns(counter) == counter = 0

AccInit ==
    /\ accountNames \in TargetLists
    /\ launched = 0
    /\ wpc = [i \in DOMAIN accountNames |-> "idle"]
    /\ backend = [i \in DOMAIN accountNames |-> NoAnswer]
    /\ wres = [i \in DOMAIN accountNames |-> [inventory |-> NilInventory, err |-> Nil]]
    /\ results = <<>>
    /\ closed = FALSE
    /\ wg = 0
    /\ mpc = "launch"
    /\ cpc = "idle"
    /\ inventories = <<>>
    /\ errors = <<>>
    /\ panicked = FALSE
    /\ cancelRequested = FALSE
    /\ inFlightAtCancel = {}

\* one iteration of the launch loop: wg.Add(1); go func(accName)
Launch ==
    /\ mpc = "launch"
    /\ launched < Len(accountNames)
    /\ launched' = launched + 1
    /\ wg' = wg + 1
    /\ wpc' = [wpc EXCEPT ![launched + 1] = "collect"]
    /\ UNCHANGED <<accountNames, backend, wres, results, closed, mpc, cpc, inventories,
                   errors, panicked, cancelRequested, inFlightAtCancel>>
    /\ UNCHANGED notAccVars

\* go func() { wg.Wait(); close(results) }()
SpawnCloser ==
    /\ mpc = "launch"
    /\ launched = Len(accountNames)
    /\ mpc' = "range"
    /\ cpc' = "wait"
    /\ UNCHANGED <<accountNames, launched, wpc, backend, wres, results, closed, wg,
                   inventories, errors, panicked, cancelRequested, inFlightAtCancel>>
    /\ UNCHANGED notAccVars

\* the goroutine's call of collectFromAccount returns
WorkerCollect(i) ==
    /\ wpc[i] = "collect"
    /\ \E outcome \in BackendOutcomes(accountNames[i]) :
         LET answer == UnderContext(CtxDone(ctx, cancelRequested), outcome) IN
           /\ backend' = [backend EXCEPT ![i] = answer]
           /\ wres' = [wres EXCEPT ![i] = collectFromAccount(accountNames[i], answer)]
    /\ wpc' = [wpc EXCEPT ![i] = "send"]
    /\ UNCHANGED <<accountNames, launched, results, closed, wg, mpc, cpc,
                   inventories, errors, panicked, cancelRequested, inFlightAtCancel>>
    /\ UNCHANGED notAccVars

\* results <- accountResult{...}: blocks while the buffer is full, panics on
\* a closed channel
WorkerSend(i) ==
    /\ wpc[i] = "send"
    /\ closed \/ Len(results) < ChanCap(accountNames)
    /\ IF closed
       THEN panicked' = TRUE /\ UNCHANGED results
       ELSE results' = Append(results, wres[i]) /\ UNCHANGED panicked
    /\ wpc' = [wpc EXCEPT ![i] = "exit"]
    /\ UNCHANGED <<accountNames, launched, backend, wres, closed, wg, mpc, cpc,
                   inventories, errors, cancelRequested, inFlightAtCancel>>
    /\ UNCHANGED notAccVars

\* defer wg.Done()
WorkerDone(i) ==
    /\ wpc[i] = "exit"
    /\ wg' = wg - 1
    /\ wpc' = [wpc EXCEPT ![i] = "done"]
    /\ UNCHANGED <<accountNames, launched, backend, wres, results, closed, mpc, cpc,
                   inventories, errors, panicked, cancelRequested, inFlightAtCancel>>
    /\ UNCHANGED notAccVars

\* wg.Wait() returns in the closing goroutine
CloserWait ==
    /\ cpc = "wait"
    /\ WaitReturns(wg)
    /\ cpc' = "close"
    /\ UNCHANGED <<accountNames, launched, wpc, backend, wres, results, closed, wg, mpc,
                   inventories, errors, panicked, cancelRequested, inFlightAtCancel>>
    /\ UNCHANGED notAccVars

\* close(results)
CloserClose ==
    /\ cpc = "close"
    /\ closed' = TRUE
    /\ cpc' = "done"
    /\ UNCHANGED <<accountNames, launched, wpc, backend, wres, results, wg, mpc,
                   inventories, errors, panicked, cancelRequested, inFlightAtCancel>>
    /\ UNCHANGED notAccVars

\* one iteration of: for result := range results
Receive ==
    /\ mpc = "range"
    /\ results # <<>>
    /\ LET result == Head(results) IN
         /\ results' = Tail(results)
         /\ IF result.err # Nil
            THEN errors' = Append(errors, result.err) /\ UNCHANGED inventories
            ELSE IF result.inventory # NilInventory
            THEN inventories' = Append(inventories, result.inventory) /\ UNCHANGED errors
            ELSE UNCHANGED <<inventories, errors>>
    /\ UNCHANGED <<accountNames, launched, wpc, backend, wres, closed, wg, mpc, cpc,
                   panicked, cancelRequested, inFlightAtCancel>>
    /\ UNCHANGED notAccVars

\* the range loop ends on the closed, drained channel: return inventories, errors
Return ==
    /\ mpc = "range"
    /\ results = <<>>
    /\ closed
    /\ mpc' = "returned"
    /\ UNCHANGED <<accountNames, launched, wpc, backend, wres, results, closed, wg, cpc,
                   inventories, errors, panicked, cancelRequested, inFlightAtCancel>>
    /\ UNCHANGED notAccVars

\* the caller asks for the collection to be abandoned while it runs;
\* CollectFromAccounts takes no context from it
CallerCancel ==
    /\ mpc # "returned"
    /\ ~cancelRequested
    /\ cancelRequested' = TRUE
    /\ inFlightAtCancel' = {i \in DOMAIN accountNames : wpc[i] = "collect"}
    /\ UNCHANGED <<accountNames, launched, wpc, backend, wres, results, closed, wg, mpc,
                   cpc, inventories, errors, panicked>>
    /\ UNCHANGED notAccVars
    /\ UNCHANGED notAccVars

Worker(i) == WorkerCollect(i) \/ WorkerSend(i) \/ WorkerDone(i)

AccNext ==
    \/ Launch
    \/ SpawnCloser
    \/ \E i \in DOMAIN accountNames : WorkerCollect(i)
    \/ \E i \in DOMAIN accountNames : WorkerSend(i)
    \/ \E i \in DOMAIN accountNames : WorkerDone(i)
    \/ CloserWait
    \/ CloserClose
    \/ Receive
    \/ Return

\* ------------------------------------------------------ MergeInventories

\* ResourceInfo values inventories are made of
SampleInfos ==
    {enrichResources(r) : r \in SampleResources("dev") \cup SampleResources("prod")}

\* a variant of MergeInventories that skips a record already merged
RECURSIVE MergeInventoriesDedup(_)
MergeInventoriesDedup(invs) ==
    IF invs = <<>> THEN [Resources |-> <<>>]
    ELSE LET before == MergeInventoriesDedup(SubSeq(invs, 1, Len(invs) - 1)).Resources
             last   == invs[Len(invs)].Resources
         IN [Resources |->
               before \o SelectSeq(last, LAMBDA x : \A k \in DOMAIN before : before[k] # x)]

\* a variant of MergeInventories whose merged.Resources starts as the nil
\* slice: it is still nil after appending nothing
RECURSIVE MergeInventoriesFromNil(_)
MergeInventoriesFromNil(invs) ==
    IF invs = <<>> THEN [Resources |-> <<>>, ResourcesIsNil |-> TRUE]
    ELSE LET before == MergeInventoriesFromNil(SubSeq(invs, 1, Len(invs) - 1))
             last   == invs[Len(invs)].Resources
         IN [Resources |-> before.Resources \o last,
             ResourcesIsNil |-> before.ResourcesIsNil /\ last = <<>>]

\* inventory.MergeInventories: merged.Resources starts as make(..., 0), an
\* empty slice that is not nil, and every iteration appends inv.Resources...
\* to it; append leaves a nil slice nil only when it appends nothing to it
RECURSIVE MergeInventories(_)
MergeInventories(invs) ==
    IF invs = <<>> THEN [Resources |-> <<>>, ResourcesIsNil |-> FALSE]
    ELSE LET before == MergeInventories(SubSeq(invs, 1, Len(invs) - 1))
             last   == invs[Len(invs)].Resources
         IN [Resources |-> before.Resources \o last,
             ResourcesIsNil |-> before.ResourcesIsNil /\ last = <<>>]

MergeInit ==
    /\ mergeInput \in SeqsUpTo({[Resources |-> r] : r \in SeqsUpTo(SampleInfos, MaxInvLen)},
                               MaxInvs)
    /\ merged = NilInventory
    /\ mergePc = "call"

\* mergedInventory := inventory.MergeInventories(results)
CallMerge ==
    /\ mergePc = "call"
    /\ merged' = MergeInventories(mergeInput)
    /\ mergePc' = "done"
    /\ UNCHANGED mergeInput
    /\ UNCHANGED notMergeVars

MergeIdle == mergeInput = <<>> /\ merged = NilInventory /\ mergePc = "idle"

\* ------------------------------------------------------ CollectFromSource

\* DataSource.Name of the two implementations
SourceNames == {"AWS", "GitHub"}

\* errors the implementations of Collect return
CollectErrors ==
    { "failed to create AWS client: auth failure",
      "failed to get resources: throttled",
      "collect failed to list repositories: 401" }

\* a variant of CollectFromSource that hands the error on unwrapped
CollectFromSourceBare(name, collected) ==
    IF collected.err # Nil
    THEN [inventory |-> NilInventory, err |-> collected.err]
    ELSE [inventory |-> [Resources |-> collected.resources], err |-> Nil]

\* inventory.Collector.CollectFromSource
CollectFromSource(name, collected) ==
    IF collected.err # Nil
    THEN [inventory |-> NilInventory, err |-> name \o ": " \o collected.err]
    ELSE [inventory |-> [Resources |-> collected.resources], err |-> Nil]

SourceInit ==
    /\ sourceName \in SourceNames
    /\ sourceCollect \in [resources : SeqsUpTo(SampleInfos, MaxInvLen),
                          err : CollectErrors \cup {Nil}]
    /\ sourceResult = [inventory |-> NilInventory, err |-> Nil]
    /\ sourcePc = "call"

\* result, err := collector.CollectFromSource(ctx, dataSource)
CallCollectFromSource ==
    /\ sourcePc = "call"
    /\ sourceResult' = CollectFromSource(sourceName, sourceCollect)
    /\ sourcePc' = "done"
    /\ UNCHANGED <<sourceName, sourceCollect>>
    /\ UNCHANGED notSrcVars

SourceIdle ==
    /\ sourceName = ""
    /\ sourceCollect = [resources |-> <<>>, err |-> Nil]
    /\ sourceResult = [inventory |-> NilInventory, err |-> Nil]
    /\ sourcePc = "idle"

\* ------------------------------------------------- cloud-tag classifier
\* tag keys and values tried
TagKeysTried ==
    {"owned-by", "team", "Name", "aws:cloudformation:logical-id",
     "aws:cloudformation:stack-name", "env"}

TagValuesTried == {"", "alice", "core"}

\* every tag map over those keys and values
TagMapsTried == UNION {[K -> TagValuesTried] : K \in SUBSET TagKeysTried}

\* resource identifiers tried: a known service, an unknown one, a short one
ARNsTried ==
    {"arn:aws:ec2:us-east-1:1:instance/i-1", "arn:aws:s3:::bucket", "arn:aws"}

\* no ResourceInfo yet
NoInfo == [isNil |-> TRUE]

ClsInit ==
    /\ clsRes \in {[ARN |-> arn, Tags |-> tags,
                    Platform |-> extractPlatformFromARN(arn), Account |-> "dev"] :
                     arn \in ARNsTried, tags \in TagMapsTried}
    /\ clsInfo = NoInfo
    /\ clsPc = "input"

\* info := enrichResource(res), in the aws DataSource
ClassifyForSource ==
    /\ clsPc = "input"
    /\ clsInfo' = enrichResource(clsRes)
    /\ clsPc' = "enrichResource"
    /\ UNCHANGED clsRes
    /\ UNCHANGED notClsVars

\* info := c.enrichResources(res), in collectFromAccount
ClassifyForAccounts ==
    /\ clsPc = "input"
    /\ clsInfo' = enrichResources(clsRes)
    /\ clsPc' = "enrichResources"
    /\ UNCHANGED clsRes
    /\ UNCHANGED notClsVars

ClsNext == ClassifyForSource \/ ClassifyForAccounts

ClsIdle ==
    /\ clsRes = [ARN |-> "", Tags |-> EmptyTags, Platform |-> "", Account |-> ""]
    /\ clsInfo = NoInfo
    /\ clsPc = "idle"

\* ------------------------------------------------ aws DataSource.Collect
Tag(key, value) == [Key |-> key, Value |-> value]

\* ResourceTagMappings the tagging API may hold
mWeb ==
    [ResourceARN |-> "arn:aws:ec2:us-east-1:1:instance/i-1",
     Tags |-> <<Tag("Name", "web"), Tag("team", "core")>>]

mEmptyOwner ==
    [ResourceARN |-> "arn:aws:lambda:us-east-1:1:function:f",
     Tags |-> <<Tag("owned-by", "")>>]

mEksCluster ==
    [ResourceARN |-> "arn:aws:ecs:us-east-1:1:service/s",
     Tags |-> <<Tag("team", "core"), Tag("aws:eks:cluster-name", "c1")>>]

mNodegroup ==
    [ResourceARN |-> "arn:aws:ec2:us-east-1:1:instance/i-2",
     Tags |-> <<Tag("eks:nodegroup-name", "ng"), Tag("Name", "node")>>]

mEksLegacy ==
    [ResourceARN |-> "arn:aws:ec2:us-east-1:1:instance/i-3",
     Tags |-> <<Tag("eks:cluster-name", "c1")>>]

mNilValue ==
    [ResourceARN |-> "arn:aws:apprunner:us-east-1:1:service/a",
     Tags |-> <<Tag("eks:cluster-name", Nil), Tag("owned-by", "alice")>>]

\* pages (ResourceTagMappingList) the tagging API may answer with
SamplePages ==
    { <<>>,
      <<mWeb, mEksCluster>>,
      <<mNodegroup, mEmptyOwner>>,
      <<mEksLegacy, mNilValue, mWeb>> }

\* the PaginationToken that asks for page k
Token(k) == "page-" \o ToString(k)

\* the page a request with the given token is answered with
PageOf(token) ==
    IF token = Nil THEN 1 ELSE CHOOSE k \in DOMAIN awsPages : Token(k) = token

\* the PaginationToken of the response carrying page k
TokenAfter(k) == IF k = Len(awsPages) THEN awsLastToken ELSE Token(k + 1)

\* the loop over result.ResourceTagMappingList: process, drop EKS, append
RECURSIVE keepNonEKS(_, _)
keepNonEKS(mappings, accountName) ==
    IF mappings = <<>> THEN <<>>
    ELSE LET resource == processResource(Head(mappings), accountName) IN
           (IF ~isEKSResource(resource.Tags) THEN <<resource>> ELSE <<>>)
           \o keepNonEKS(Tail(mappings), accountName)

AwsInit ==
    /\ awsAccount = "prod"
    /\ awsPages \in UNION {[1..n -> SamplePages] : n \in 1..MaxPages}
    /\ awsLastToken \in {Nil, ""}
    /\ paginationToken = Nil
    /\ allResources = <<>>
    /\ awsPc = "newClient"
    /\ awsCollected = <<>>
    /\ awsErr = Nil
    /\ awsRequests = <<>>

\* NewClient succeeds
NewClientOk ==
    /\ awsPc = "newClient"
    /\ awsPc' = "fetch"
    /\ UNCHANGED <<awsAccount, awsPages, awsLastToken, paginationToken,
                   allResources, awsCollected, awsErr, awsRequests>>
    /\ UNCHANGED notAwsVars

\* NewClient fails: Collect returns nil and the wrapped error
NewClientFail ==
    /\ awsPc = "newClient"
    /\ awsErr' = "failed to create AWS client: "
                 \o "newClient: failed to load AWS config: no credentials"
    /\ awsPc' = "done"
    /\ UNCHANGED <<awsAccount, awsPages, awsLastToken, paginationToken,
                   allResources, awsCollected, awsRequests>>
    /\ UNCHANGED notAwsVars

\* a variant of the iteration that takes an empty page for the last one
FetchPageStopOnEmpty ==
    /\ awsPc = "fetch"
    /\ awsRequests' = Append(awsRequests, paginationToken)
    /\ LET k == PageOf(paginationToken) IN
         /\ allResources' = allResources \o keepNonEKS(awsPages[k], awsAccount)
         /\ IF TokenAfter(k) = Nil \/ TokenAfter(k) = "" \/ awsPages[k] = <<>>
            THEN awsPc' = "enrich" /\ UNCHANGED paginationToken
            ELSE paginationToken' = TokenAfter(k) /\ UNCHANGED awsPc
    /\ UNCHANGED <<awsAccount, awsPages, awsLastToken, awsCollected, awsErr>>
    /\ UNCHANGED notAwsVars

\* one iteration of the loop of GetResources whose call succeeds
FetchPage ==
    /\ awsPc = "fetch"
    /\ awsRequests' = Append(awsRequests, paginationToken)
    /\ LET k == PageOf(paginationToken) IN
         /\ allResources' = allResources \o keepNonEKS(awsPages[k], awsAccount)
         /\ IF TokenAfter(k) = Nil \/ TokenAfter(k) = ""
            THEN awsPc' = "enrich" /\ UNCHANGED paginationToken
            ELSE paginationToken' = TokenAfter(k) /\ UNCHANGED awsPc
    /\ UNCHANGED <<awsAccount, awsPages, awsLastToken, awsCollected, awsErr>>
    /\ UNCHANGED notAwsVars

\* a variant of the failing call that hands back what earlier pages gave
FetchFailKeepPartial ==
    /\ awsPc = "fetch"
    /\ awsCollected' = [k \in DOMAIN allResources |-> enrichResource(allResources[k])]
    /\ awsErr' = "failed to get resources: "
                 \o "getResources: failed to get resources: throttled"
    /\ awsPc' = "done"
    /\ awsRequests' = Append(awsRequests, paginationToken)
    /\ UNCHANGED <<awsAccount, awsPages, awsLastToken, paginationToken, allResources>>
    /\ UNCHANGED notAwsVars

\* the call of taggingClient.GetResources fails: GetResources returns nil
\* and an error, and so does Collect
FetchFail ==
    /\ awsPc = "fetch"
    /\ allResources' = <<>>
    /\ awsErr' = "failed to get resources: "
                 \o "getResources: failed to get resources: throttled"
    /\ awsPc' = "done"
    /\ awsRequests' = Append(awsRequests, paginationToken)
    /\ UNCHANGED <<awsAccount, awsPages, awsLastToken, paginationToken, awsCollected>>
    /\ UNCHANGED notAwsVars

\* GetResources has returned: the loop of Collect over resources
EnrichAll ==
    /\ awsPc = "enrich"
    /\ awsCollected' = [k \in DOMAIN allResources |-> enrichResource(allResources[k])]
    /\ awsPc' = "done"
    /\ UNCHANGED <<awsAccount, awsPages, awsLastToken, paginationToken,
                   allResources, awsErr, awsRequests>>
    /\ UNCHANGED notAwsVars

AwsNext == NewClientOk \/ NewClientFail \/ FetchPage \/ FetchFail \/ EnrichAll

AwsIdle ==
    /\ awsAccount = ""
    /\ awsPages = <<>>
    /\ awsLastToken = Nil
    /\ paginationToken = Nil
    /\ allResources = <<>>
    /\ awsPc = "idle"
    /\ awsCollected = <<>>
    /\ awsErr = Nil
    /\ awsRequests = <<>>

\* --------------------------------------------- github DataSource.Collect
\* codeownersLocations of getCodeOwnersContent
codeownersLocations ==
    <<"CODEOWNERS", ".github/CODEOWNERS", "docs/CODEOWNERS", "workflows/CODEOWNERS">>

\* CODEOWNERS texts the backend may hold
ContentsTried ==
    { "* @alice @bob user@example.com\n# comment\n",
      "docs/ @\n",
      "# owners\n\n*\n" }

\* what client.GetFileContent can answer for a path: a 404 error response,
\* another error, or content (possibly empty)
FetchOutcomes ==
    { [status |-> "404", content |-> ""],
      [status |-> "500", content |-> ""],
      [status |-> "ok", content |-> ""] }
    \cup {[status |-> "ok", content |-> c] : c \in ContentsTried}

\* the loop of getCodeOwnersContent from the k-th location on; fetch[l] is
\* the answer of GetFileContent for location l, calls the locations it was
\* called for, in order
RECURSIVE getCodeOwnersContentFrom(_, _)
getCodeOwnersContentFrom(fetch, k) ==
    IF k > Len(codeownersLocations)
    THEN [content |-> "", err |-> "[getCodeOwnersContent] CODEOWNERS file not found",
          calls |-> <<>>]
    ELSE LET location == codeownersLocations[k]
             answer   == fetch[location]
             next     == getCodeOwnersContentFrom(fetch, k + 1)
             onwards  == [next EXCEPT !.calls = <<location>> \o @]
         IN IF answer.status = "404" THEN onwards
            ELSE IF answer.status # "ok"
            THEN [content |-> "",
                  err |-> "[getCodeOwnersContent] API error at " \o location
                          \o ": " \o answer.status,
                  calls |-> <<location>>]
            ELSE IF answer.content # ""
            THEN [content |-> answer.content, err |-> Nil, calls |-> <<location>>]
            ELSE onwards

\* DataSource.getCodeOwnersContent
getCodeOwnersContent(fetch) == getCodeOwnersContentFrom(fetch, 1)

\* a variant of analyzeRepository that leaves Owner and Team as parsed
analyzeRepositoryNoSentinel(repo, cicd, fetch) ==
    LET hasCodeOwners == DetectCodeOwners(repo.Files)
        got    == getCodeOwnersContent(fetch)
        owners == IF hasCodeOwners /\ got.err = Nil
                  THEN ParseCodeOwners(got.content) ELSE <<>>
        owner  == IF Len(owners) > 0 THEN owners[1] ELSE ""
        tests  == DetectTests(repo.Files)
    IN [ AppName        |-> repo.Name,
         GitHubRepo     |-> repo.Name,
         RepoURL        |-> repo.HTMLURL,
         IsArchived     |-> repo.IsArchived,
         LastCommitter  |-> repo.LastCommitter,
         LastCommitDate |-> repo.LastCommitDate,
         HasCICD        |-> cicd.found,
         CICDPlatform   |-> cicd.platform,
         HasTests       |-> tests.found,
         TestFramework  |-> tests.framework,
         Platform       |-> DetectPlatform(repo.Files),
         HasCodeOwners  |-> hasCodeOwners,
         CodeOwners     |-> owners,
         Owner          |-> owner,
         Team           |-> owner ]

\* DataSource.analyzeRepository; cicd is the result of DetectCICD
analyzeRepository(repo, cicd, fetch) ==
    LET hasCodeOwners == DetectCodeOwners(repo.Files)
        got    == getCodeOwnersContent(fetch)
        owners == IF hasCodeOwners /\ got.err = Nil
                  THEN ParseCodeOwners(got.content) ELSE <<>>
        owner  == IF Len(owners) > 0 THEN owners[1] ELSE ""
        tests  == DetectTests(repo.Files)
    IN [ AppName        |-> repo.Name,
         GitHubRepo     |-> repo.Name,
         RepoURL        |-> repo.HTMLURL,
         IsArchived     |-> repo.IsArchived,
         LastCommitter  |-> repo.LastCommitter,
         LastCommitDate |-> repo.LastCommitDate,
         HasCICD        |-> cicd.found,
         CICDPlatform   |-> cicd.platform,
         HasTests       |-> tests.found,
         TestFramework  |-> tests.framework,
         Platform       |-> DetectPlatform(repo.Files),
         HasCodeOwners  |-> hasCodeOwners,
         CodeOwners     |-> owners,
         Owner          |-> IF owner = "" THEN "Unknown" ELSE owner,
         Team           |-> IF owner = "" THEN "Unknown" ELSE owner ]

\* GetFileContent was not called for the location
NotFetched == [status |-> "404", content |-> ""]

\* the answer ends the loop of getCodeOwnersContent
EndsLookup(answer) ==
    answer.status = "500" \/ (answer.status = "ok" /\ answer.content # "")

\* the answers GetFileContent may give while repo is analyzed: it is called
\* only when the listing holds a CODEOWNERS file, and for no location after
\* the one whose answer ends the loop
FetchesFor(repo) ==
    IF DetectCodeOwners(repo.Files)
    THEN { f \in [{codeownersLocations[k] : k \in DOMAIN codeownersLocations}
                    -> FetchOutcomes] :
             \A k \in DOMAIN codeownersLocations :
                 (\E j \in 1..(k - 1) : EndsLookup(f[codeownersLocations[j]]))
                     => f[codeownersLocations[k]] = NotFetched }
    ELSE {[l \in {codeownersLocations[k] : k \in DOMAIN codeownersLocations}
              |-> NotFetched]}

\* what the call of analyzeRepository on the idx-th listed repository did
\* about CODEOWNERS: getCodeOwnersContent is called only if the listing holds
\* a CODEOWNERS file
lookupOf(idx, repo, fetch) ==
    IF DetectCodeOwners(repo.Files)
    THEN LET got == getCodeOwnersContent(fetch) IN
           [idx |-> idx, called |-> TRUE, calls |-> got.calls,
            content |-> got.content, err |-> got.err]
    ELSE [idx |-> idx, called |-> FALSE, calls |-> <<>>, content |-> "", err |-> Nil]

\* a Repository as ListRepositories returns it
Repo(name, files) ==
    [ Name |-> name, Files |-> files, HTMLURL |-> "https://github.com/org/" \o name,
      IsArchived |-> FALSE, LastCommitter |-> "dana", LastCommitDate |-> "2024-01-01" ]

\* repositories the organization may hold
SampleRepos ==
    { Repo("api", <<"README.md", "Dockerfile", ".github/workflows/ci.yml",
                    "CODEOWNERS", "main_test.go">>),
      Repo("fn", <<"serverless.yml", "tests", ".github/CODEOWNERS">>),
      Repo("tools", <<"k8s-tools", "Dockerfile", "ecs-service.json">>),
      Repo("empty", <<>>),
      Repo("cluster", <<"k8s">>),
      Repo("charts", <<"Dockerfile", "Jenkinsfile", "helm/values.yaml",
                       "CODEOWNERS", "tests">>),
      Repo("chart", <<"Chart.yaml", "serverless.yml", ".travis.yml">>),
      Repo("kube", <<".kube/config", "Procfile">>),
      Repo("overlay", <<"src", "kustomization.yml", "docs/CODEOWNERS">>),
      Repo("infra", <<"kubernetes", "kustomization.yaml", "main_test.go">>) }

GhInit ==
    /\ ghRepos \in SeqsUpTo(SampleRepos, MaxRepos)
    /\ ghIdx = 0
    /\ ghResources = <<>>
    /\ ghPc = "list"
    /\ ghErr = Nil
    /\ ghLookups = <<>>

\* ListRepositories succeeds
ListRepositoriesOk ==
    /\ ghPc = "list"
    /\ ghPc' = "loop"
    /\ UNCHANGED <<ghRepos, ghIdx, ghResources, ghErr, ghLookups>>
    /\ UNCHANGED notGhVars

\* ListRepositories fails: Collect returns nil and the wrapped error
ListRepositoriesFail ==
    /\ ghPc = "list"
    /\ ghErr' = "collect failed to list repositories: 401"
    /\ ghPc' = "done"
    /\ UNCHANGED <<ghRepos, ghIdx, ghResources, ghLookups>>
    /\ UNCHANGED notGhVars

\* a variant of the iteration on a repository IsEKS reports, in which the
\* repository is analyzed before it is dropped
SkipRepositoryAnalyzed ==
    /\ ghPc = "loop"
    /\ ghIdx < Len(ghRepos)
    /\ IsEKS(ghRepos[ghIdx + 1].Files)
    /\ \E fetch \in FetchesFor(ghRepos[ghIdx + 1]) :
         ghLookups' = Append(ghLookups, lookupOf(ghIdx + 1, ghRepos[ghIdx + 1], fetch))
    /\ ghIdx' = ghIdx + 1
    /\ UNCHANGED <<ghRepos, ghResources, ghPc, ghErr>>
    /\ UNCHANGED notGhVars

\* an iteration of the loop on a repository IsEKS reports: continue
SkipRepository ==
    /\ ghPc = "loop"
    /\ ghIdx < Len(ghRepos)
    /\ IsEKS(ghRepos[ghIdx + 1].Files)
    /\ ghIdx' = ghIdx + 1
    /\ UNCHANGED <<ghRepos, ghResources, ghPc, ghErr, ghLookups>>
    /\ UNCHANGED notGhVars

\* a variant of the iteration in which a failed CODEOWNERS lookup ends
\* Collect with that error and no resources
AnalyzeRepositoryOrFail ==
    /\ ghPc = "loop"
    /\ ghIdx < Len(ghRepos)
    /\ ~IsEKS(ghRepos[ghIdx + 1].Files)
    /\ \E cicd \in DetectCICD(ghRepos[ghIdx + 1].Files) :
         \E fetch \in FetchesFor(ghRepos[ghIdx + 1]) :
           LET lookup == lookupOf(ghIdx + 1, ghRepos[ghIdx + 1], fetch) IN
             /\ ghLookups' = Append(ghLookups, lookup)
             /\ IF lookup.err # Nil
                THEN /\ ghResources' = <<>>
                     /\ ghErr' = lookup.err
                     /\ ghPc' = "done"
                ELSE /\ ghResources' = Append(ghResources,
                                    analyzeRepository(ghRepos[ghIdx + 1], cicd, fetch))
                     /\ UNCHANGED <<ghPc, ghErr>>
    /\ ghIdx' = ghIdx + 1
    /\ UNCHANGED ghRepos
    /\ UNCHANGED notGhVars

\* a variant of the iteration that puts the new record in front
AnalyzeRepositoryInFront ==
    /\ ghPc = "loop"
    /\ ghIdx < Len(ghRepos)
    /\ ~IsEKS(ghRepos[ghIdx + 1].Files)
    /\ \E cicd \in DetectCICD(ghRepos[ghIdx + 1].Files) :
         \E fetch \in FetchesFor(ghRepos[ghIdx + 1]) :
           /\ ghResources' = <<analyzeRepository(ghRepos[ghIdx + 1], cicd, fetch)>>
                                \o ghResources
           /\ ghLookups' = Append(ghLookups,
                                  lookupOf(ghIdx + 1, ghRepos[ghIdx + 1], fetch))
    /\ ghIdx' = ghIdx + 1
    /\ UNCHANGED <<ghRepos, ghPc, ghErr>>
    /\ UNCHANGED notGhVars

\* an iteration of the loop on any other repository: analyze and append
AnalyzeRepository ==
    /\ ghPc = "loop"
    /\ ghIdx < Len(ghRepos)
    /\ ~IsEKS(ghRepos[ghIdx + 1].Files)
    /\ \E cicd \in DetectCICD(ghRepos[ghIdx + 1].Files) :
         \E fetch \in FetchesFor(ghRepos[ghIdx + 1]) :
           /\ ghResources' = Append(ghResources,
                                    analyzeRepository(ghRepos[ghIdx + 1], cicd, fetch))
           /\ ghLookups' = Append(ghLookups,
                                  lookupOf(ghIdx + 1, ghRepos[ghIdx + 1], fetch))
    /\ ghIdx' = ghIdx + 1
    /\ UNCHANGED <<ghRepos, ghPc, ghErr>>
    /\ UNCHANGED notGhVars

\* the loop is over: return resources, nil
ReturnResources ==
    /\ ghPc = "loop"
    /\ ghIdx = Len(ghRepos)
    /\ ghPc' = "done"
    /\ UNCHANGED <<ghRepos, ghIdx, ghResources, ghErr, ghLookups>>
    /\ UNCHANGED notGhVars

GhNext ==
    \/ ListRepositoriesOk
    \/ ListRepositoriesFail
    \/ SkipRepository
    \/ AnalyzeRepository
    \/ ReturnResources

GhIdle ==
    /\ ghRepos = <<>>
    /\ ghIdx = 0
    /\ ghResources = <<>>
    /\ ghPc = "idle"
    /\ ghErr = Nil
    /\ ghLookups = <<>>

\* ------------------------------------------------ extractPlatformFromARN
\* segments tried at the k-th place of an identifier
SegmentsAt(k) ==
    CASE k = 1 -> {"arn", ""}
      [] k = 2 -> {"aws", ""}
      [] k = 3 -> {"ec2", "lambda", "ecs", "elasticbeanstalk", "lightsail",
                   "apprunner", "s3", ""}
      [] OTHER -> {"us-east-1", ""}

\* identifiers of up to MaxSegments colon-separated segments
ARNsBuilt ==
    { Join(segs, ":") :
        segs \in UNION { {f \in [1..n -> UNION {SegmentsAt(k) : k \in 1..n}] :
                            \A k \in 1..n : f[k] \in SegmentsAt(k)} : n \in 0..MaxSegments } }

ArnInit ==
    /\ arnInput \in ARNsBuilt
    /\ arnPlatform = ""
    /\ arnPc = "input"

\* Platform: extractPlatformFromARN(resourceARN), in processResource
ApplyExtractPlatform ==
    /\ arnPc = "input"
    /\ arnPlatform' = extractPlatformFromARN(arnInput)
    /\ arnPc' = "done"
    /\ UNCHANGED arnInput
    /\ UNCHANGED notArnVars

ArnIdle ==
    /\ arnInput = ""
    /\ arnPlatform = ""
    /\ arnPc = "idle"

\* ------------------------------------------------- Detector on listings
\* paths a listing may hold
PathsTried ==
    { "README.md", "Dockerfile", "ecs-service.json", "serverless.yml",
      "functions/a.js", "Procfile", ".github/workflows/ci.yml", "Jenkinsfile",
      ".travis.yml", "tests", "test/unit.py", "main_test.go" }

\* nothing returned yet
NoOut == [found |-> FALSE, text |-> ""]

\* listings of up to MaxFiles paths, no path twice
ListingsTried ==
    { l \in SeqsUpTo(PathsTried, MaxFiles) :
        \A i \in DOMAIN l : \A j \in DOMAIN l : i # j => l[i] # l[j] }

DetInit ==
    /\ detFiles \in ListingsTried
    /\ detOut = NoOut
    /\ detPc = "input"

\* info.Platform = ds.detector.DetectPlatform(repo.Files)
ApplyDetectPlatform ==
    /\ detPc = "input"
    /\ detOut' = [found |-> TRUE, text |-> DetectPlatform(detFiles)]
    /\ detPc' = "DetectPlatform"
    /\ UNCHANGED detFiles
    /\ UNCHANGED notDetVars

\* hasCICD, cicdPlatform := ds.detector.DetectCICD(repo.Files)
ApplyDetectCICD ==
    /\ detPc = "input"
    /\ \E r \in DetectCICD(detFiles) :
         detOut' = [found |-> r.found, text |-> r.platform]
    /\ detPc' = "DetectCICD"
    /\ UNCHANGED detFiles
    /\ UNCHANGED notDetVars

\* hasTests, testFramework := ds.detector.DetectTests(repo.Files)
ApplyDetectTests ==
    /\ detPc = "input"
    /\ detOut' = [found |-> DetectTests(detFiles).found,
                  text |-> DetectTests(detFiles).framework]
    /\ detPc' = "DetectTests"
    /\ UNCHANGED detFiles
    /\ UNCHANGED notDetVars

DetNext ==
    \/ ApplyDetectPlatform
    \/ ApplyDetectCICD
    \/ ApplyDetectTests

DetIdle ==
    /\ detFiles = <<>>
    /\ detOut = NoOut
    /\ detPc = "idle"

\* ------------------------------------------------------ ParseCodeOwners
\* lines a CODEOWNERS text may hold
LinesTried ==
    { "", "# owners @carol", "* @alice @bob", "docs/ user@example.com @alice",
      "  *.go\t@bob  ", "@solo", "* @" }

\* texts of up to MaxLines lines
ContentsBuilt == { Join(lines, "\n") : lines \in SeqsUpTo(LinesTried, MaxLines) }

CoInit ==
    /\ coContent \in ContentsBuilt
    /\ coOwners = <<>>
    /\ coPc = "input"

\* info.CodeOwners = ds.detector.ParseCodeOwners(codeownersContent)
ApplyParseCodeOwners ==
    /\ coPc = "input"
    /\ coOwners' = ParseCodeOwners(coContent)
    /\ coPc' = "done"
    /\ UNCHANGED coContent
    /\ UNCHANGED notCoVars

CoIdle ==
    /\ coContent = ""
    /\ coOwners = <<>>
    /\ coPc = "idle"

\* ------------------------------------------- classifying a record twice
\* tag maps of the cloud records classified twice
TwTagMaps ==
    UNION {[K -> {"", "alice"}] :
             K \in SUBSET {"owned-by", "team", "Name", "aws:cloudformation:stack-name"}}

\* cloud resources classified twice
TwResources ==
    {[ARN |-> arn, Tags |-> tags, Platform |-> extractPlatformFromARN(arn),
      Account |-> "dev"] : arn \in ARNsTried, tags \in TwTagMaps}

\* listings of the repositories classified twice: up to MaxFiles of these
\* paths, no path twice
TwListings ==
    { l \in SeqsUpTo({"Jenkinsfile", ".travis.yml", ".github/workflows/ci.yml",
                      "CODEOWNERS", "Dockerfile", "tests"}, MaxFiles) :
        \A i \in DOMAIN l : \A j \in DOMAIN l : i # j => l[i] # l[j] }

\* no repository, no resource
NoRepo == Repo("", <<>>)

NoResource == [ARN |-> "", Tags |-> EmptyTags, Platform |-> "", Account |-> ""]

\* GetFileContent answers with the repository's CODEOWNERS text
FetchOfText(content) ==
    [l \in {codeownersLocations[k] : k \in DOMAIN codeownersLocations}
        |-> [status |-> "ok", content |-> content]]

TwInit ==
    /\ twRaw \in {[kind |-> "cloud", res |-> r, repo |-> NoRepo, content |-> ""] :
                    r \in TwResources}
               \cup {[kind |-> "repo", res |-> NoResource, repo |-> Repo("svc", l),
                      content |-> c] : l \in TwListings, c \in ContentsTried \cup {""}}
    /\ twFirst = NoInfo
    /\ twSecond = NoInfo
    /\ twPc = "input"

\* enrichResource(res), run twice on one resource
EnrichTwice ==
    /\ twPc = "input"
    /\ twRaw.kind = "cloud"
    /\ twFirst' = enrichResource(twRaw.res)
    /\ twSecond' = enrichResource(twRaw.res)
    /\ twPc' = "done"
    /\ UNCHANGED twRaw
    /\ UNCHANGED notTwVars

\* c.enrichResources(res), run twice on one resource
EnrichResourcesTwice ==
    /\ twPc = "input"
    /\ twRaw.kind = "cloud"
    /\ twFirst' = enrichResources(twRaw.res)
    /\ twSecond' = enrichResources(twRaw.res)
    /\ twPc' = "done"
    /\ UNCHANGED twRaw
    /\ UNCHANGED notTwVars

\* ds.analyzeRepository(ctx, repo), run twice on one repository; each run
\* ranges over the cicdFiles map in an order of its own
AnalyzeTwice ==
    /\ twPc = "input"
    /\ twRaw.kind = "repo"
    /\ \E cicd1 \in DetectCICD(twRaw.repo.Files) :
         \E cicd2 \in DetectCICD(twRaw.repo.Files) :
           /\ twFirst' = analyzeRepository(twRaw.repo, cicd1, FetchOfText(twRaw.content))
           /\ twSecond' = analyzeRepository(twRaw.repo, cicd2, FetchOfText(twRaw.content))
    /\ twPc' = "done"
    /\ UNCHANGED twRaw
    /\ UNCHANGED notTwVars

TwNext ==
    \/ EnrichTwice
    \/ EnrichResourcesTwice
    \/ AnalyzeTwice

TwIdle ==
    /\ twRaw = [kind |-> "", res |-> NoResource, repo |-> NoRepo, content |-> ""]
    /\ twFirst = NoInfo
    /\ twSecond = NoInfo
    /\ twPc = "idle"

\* ------------------------------------------------------------ func main
\* what the goroutines of CollectFromAccounts can send for a target
ArrivalsTried ==
    UNION { {collectFromAccount(name, outcome) : outcome \in BackendOutcomes(name)} :
              name \in {"dev", "prod"} }

\* the range loop of CollectFromAccounts over the results received
RECURSIVE rangeResults(_)
rangeResults(arrivals) ==
    IF arrivals = <<>> THEN [inventories |-> <<>>, errors |-> <<>>]
    ELSE LET before == rangeResults(SubSeq(arrivals, 1, Len(arrivals) - 1))
             result == arrivals[Len(arrivals)]
         IN IF result.err # Nil
            THEN [before EXCEPT !.errors = Append(@, result.err)]
            ELSE IF result.inventory # NilInventory
            THEN [before EXCEPT !.inventories = Append(@, result.inventory)]
            ELSE before

NoSource == [name |-> "", resources |-> <<>>, err |-> Nil]

RunInit ==
    /\ runMain \in {"accounts", "source"}
    /\ IF runMain = "accounts"
       THEN /\ runArrivals \in UNION {[1..n -> ArrivalsTried] : n \in 1..MaxTargets}
            /\ runSource = NoSource
       ELSE /\ runArrivals = <<>>
            /\ runSource \in {[name |-> n, resources |-> <<>>, err |-> e] :
                                n \in SourceNames, e \in CollectErrors}
                             \cup {[name |-> n, resources |-> r, err |-> Nil] :
                                     n \in SourceNames, r \in SeqsUpTo(SampleInfos, MaxRes)}
    /\ runFormat \in {"table", "markdown", "json"}
    /\ runResults = <<>>
    /\ runErrors = <<>>
    /\ runWarnings = <<>>
    /\ runInventory = NilInventory
    /\ runFatal = Nil
    /\ runPc = "collect"

\* results, errors := collector.CollectFromAccounts(cfg, accountNames), and
\* the loop that prints a warning for every error
CollectAccounts ==
    /\ runPc = "collect"
    /\ runMain = "accounts"
    /\ LET returned == rangeResults(runArrivals) IN
         /\ runResults' = returned.inventories
         /\ runErrors' = returned.errors
         /\ runWarnings' = [k \in DOMAIN returned.errors |-> "Warning: " \o returned.errors[k]]
    /\ runPc' = "check"
    /\ UNCHANGED <<runMain, runArrivals, runSource, runFormat, runInventory, runFatal>>
    /\ UNCHANGED notRunVars

\* a variant of the check that gives up as soon as one target failed
CheckResultsStrict ==
    /\ runPc = "check"
    /\ IF Len(runResults) = 0 \/ Len(runErrors) > 0
       THEN /\ runFatal' = "Error: No inventory data collected"
            /\ runPc' = "fatal"
            /\ UNCHANGED runInventory
       ELSE /\ runInventory' = MergeInventories(runResults)
            /\ runPc' = "writer"
            /\ UNCHANGED runFatal
    /\ UNCHANGED <<runMain, runArrivals, runSource, runFormat, runResults, runErrors,
                   runWarnings>>
    /\ UNCHANGED notRunVars

\* if len(results) == 0 { log.Fatal }; mergedInventory := MergeInventories(results)
CheckResults ==
    /\ runPc = "check"
    /\ IF Len(runResults) = 0
       THEN /\ runFatal' = "Error: No inventory data collected"
            /\ runPc' = "fatal"
            /\ UNCHANGED runInventory
       ELSE /\ runInventory' = MergeInventories(runResults)
            /\ runPc' = "writer"
            /\ UNCHANGED runFatal
    /\ UNCHANGED <<runMain, runArrivals, runSource, runFormat, runResults, runErrors,
                   runWarnings>>
    /\ UNCHANGED notRunVars

\* result, err := collector.CollectFromSource(ctx, dataSource) and the two
\* checks after it
CollectSource ==
    /\ runPc = "collect"
    /\ runMain = "source"
    /\ LET returned == CollectFromSource(runSource.name,
                         [resources |-> runSource.resources, err |-> runSource.err])
       IN IF returned.err # Nil
          THEN /\ runErrors' = <<returned.err>>
               /\ runFatal' = "Failed to collect inventory: " \o returned.err
               /\ runPc' = "fatal"
               /\ UNCHANGED <<runResults, runInventory>>
          ELSE IF Len(returned.inventory.Resources) = 0
          THEN /\ runResults' = <<returned.inventory>>
               /\ runFatal' = "Error: No resources found"
               /\ runPc' = "fatal"
               /\ UNCHANGED <<runErrors, runInventory>>
          ELSE /\ runResults' = <<returned.inventory>>
               /\ runInventory' = returned.inventory
               /\ runPc' = "writer"
               /\ UNCHANGED <<runErrors, runFatal>>
    /\ UNCHANGED <<runMain, runArrivals, runSource, runFormat, runWarnings>>
    /\ UNCHANGED notRunVars

\* switch *formatFlag
SelectWriter ==
    /\ runPc = "writer"
    /\ IF runFormat \in {"table", "markdown"}
       THEN runPc' = "write" /\ UNCHANGED runFatal
       ELSE /\ runFatal' = "Error: Unknown format '" \o runFormat
                           \o "'. Use 'table' or 'markdown'"
            /\ runPc' = "fatal"
    /\ UNCHANGED <<runMain, runArrivals, runSource, runFormat, runResults, runErrors,
                   runWarnings, runInventory>>
    /\ UNCHANGED notRunVars

\* writer.Write(...) and the end of main
WriteOutput ==
    /\ runPc = "write"
    /\ \E err \in {Nil, "failed to create file: permission denied"} :
         IF err # Nil
         THEN runFatal' = "Failed to write output: " \o err /\ runPc' = "fatal"
         ELSE runPc' = "exit" /\ UNCHANGED runFatal
    /\ UNCHANGED <<runMain, runArrivals, runSource, runFormat, runResults, runErrors,
                   runWarnings, runInventory>>
    /\ UNCHANGED notRunVars

RunNext ==
    \/ CollectAccounts
    \/ CheckResults
    \/ CollectSource
    \/ SelectWriter
    \/ WriteOutput

RunIdle ==
    /\ runMain = ""
    /\ runArrivals = <<>>
    /\ runSource = NoSource
    /\ runFormat = ""
    /\ runResults = <<>>
    /\ runErrors = <<>>
    /\ runWarnings = <<>>
    /\ runInventory = NilInventory
    /\ runFatal = Nil
    /\ runPc = "idle"

\* ------------------------------------------------ getCodeOwnersContent
\* the loop of the getCodeOwnersContent that takes the file listing, from
\* the k-th of its three locations on: a location missing from files is
\* passed over without a call, a call without error returns its content, and
\* after any error the loop goes on
RECURSIVE getCodeOwnersContentListed(_, _, _)
getCodeOwnersContentListed(files, fetch, k) ==
    IF k > 3
    THEN [content |-> "", err |-> "getCodeOwnersContent CODEOWNERS file not found",
          calls |-> <<>>]
    ELSE LET location == codeownersLocations[k]
             found    == \E i \in DOMAIN files : files[i] = location
             next     == getCodeOwnersContentListed(files, fetch, k + 1)
         IN IF ~found THEN next
            ELSE IF fetch[location].status = "ok"
            THEN [content |-> fetch[location].content, err |-> Nil, calls |-> <<location>>]
            ELSE [next EXCEPT !.calls = <<location>> \o @]

\* listings of up to MaxFiles of the three locations, none twice
GcListings ==
    { l \in SeqsUpTo({codeownersLocations[k] : k \in 1..3}, MaxFiles) :
        \A i \in DOMAIN l : \A j \in DOMAIN l : i # j => l[i] # l[j] }

NoLookup == [content |-> "", err |-> Nil, calls |-> <<>>]

GcInit ==
    /\ gcFiles \in GcListings
    /\ gcFetch \in [{codeownersLocations[k] : k \in DOMAIN codeownersLocations}
                     -> FetchOutcomes]
    /\ gcOut = NoLookup
    /\ gcPc = "input"

\* ds.getCodeOwnersContent(ctx, repo.Name, repo.Files)
ApplyGetCodeOwnersContentListed ==
    /\ gcPc = "input"
    /\ gcOut' = getCodeOwnersContentListed(gcFiles, gcFetch, 1)
    /\ gcPc' = "listed"
    /\ UNCHANGED <<gcFiles, gcFetch>>
    /\ UNCHANGED notGcVars

\* ds.getCodeOwnersContent(ctx, repo.Name)
ApplyGetCodeOwnersContent ==
    /\ gcPc = "input"
    /\ gcOut' = getCodeOwnersContent(gcFetch)
    /\ gcPc' = "plain"
    /\ UNCHANGED <<gcFiles, gcFetch>>
    /\ UNCHANGED notGcVars

GcNext == ApplyGetCodeOwnersContentListed \/ ApplyGetCodeOwnersContent

GcIdle ==
    /\ gcFiles = <<>>
    /\ gcFetch = <<>>
    /\ gcOut = NoLookup
    /\ gcPc = "idle"

\* the multi-account collection is not running
AccIdle ==
    /\ accountNames = <<>>
    /\ launched = 0
    /\ wpc = <<>>
    /\ backend = <<>>
    /\ wres = <<>>
    /\ results = <<>>
    /\ closed = FALSE
    /\ wg = 0
    /\ mpc = "idle"
    /\ cpc = "idle"
    /\ inventories = <<>>
    /\ errors = <<>>
    /\ panicked = FALSE
    /\ cancelRequested = FALSE
    /\ inFlightAtCancel = {}

\* ------------------------------------------------------- specifications
\* the Go scheduler runs every runnable goroutine: CollectFromAccounts itself,
\* each worker, and the goroutine that waits and closes
AccFairness ==
    /\ WF_vars(Launch \/ SpawnCloser \/ Receive \/ Return)
    /\ WF_vars(CloserWait \/ CloserClose)
    /\ \A i \in 1..(MaxTargets + 1) : WF_vars(i \in DOMAIN accountNames /\ Worker(i))

InitAccounts == AccInit /\ MergeIdle /\ SourceIdle /\ AwsIdle /\ ClsIdle /\ GhIdle /\ ArnIdle /\ DetIdle /\ CoIdle /\ TwIdle /\ RunIdle /\ GcIdle

InitMerge == MergeInit /\ AccIdle /\ SourceIdle /\ AwsIdle /\ ClsIdle /\ GhIdle /\ ArnIdle /\ DetIdle /\ CoIdle /\ TwIdle /\ RunIdle /\ GcIdle

InitSource == SourceInit /\ AccIdle /\ MergeIdle /\ AwsIdle /\ ClsIdle /\ GhIdle /\ ArnIdle /\ DetIdle /\ CoIdle /\ TwIdle /\ RunIdle /\ GcIdle

InitAws == AwsInit /\ AccIdle /\ MergeIdle /\ SourceIdle /\ ClsIdle /\ GhIdle /\ ArnIdle /\ DetIdle /\ CoIdle /\ TwIdle /\ RunIdle /\ GcIdle

InitClassify == ClsInit /\ AccIdle /\ MergeIdle /\ SourceIdle /\ AwsIdle /\ GhIdle /\ ArnIdle /\ DetIdle /\ CoIdle /\ TwIdle /\ RunIdle /\ GcIdle

InitGitHub == GhInit /\ AccIdle /\ MergeIdle /\ SourceIdle /\ AwsIdle /\ ClsIdle /\ ArnIdle /\ DetIdle /\ CoIdle /\ TwIdle /\ RunIdle /\ GcIdle

InitArn == ArnInit /\ AccIdle /\ MergeIdle /\ SourceIdle /\ AwsIdle /\ ClsIdle /\ GhIdle /\ DetIdle /\ CoIdle /\ TwIdle /\ RunIdle /\ GcIdle

InitDet == DetInit /\ AccIdle /\ MergeIdle /\ SourceIdle /\ AwsIdle /\ ClsIdle /\ GhIdle /\ ArnIdle /\ CoIdle /\ TwIdle /\ RunIdle /\ GcIdle

InitCo == CoInit /\ AccIdle /\ MergeIdle /\ SourceIdle /\ AwsIdle /\ ClsIdle /\ GhIdle /\ ArnIdle /\ DetIdle /\ TwIdle /\ RunIdle /\ GcIdle

InitTw == TwInit /\ AccIdle /\ MergeIdle /\ SourceIdle /\ AwsIdle /\ ClsIdle /\ GhIdle /\ ArnIdle /\ CoIdle /\ DetIdle /\ RunIdle /\ GcIdle

InitRun == RunInit /\ AccIdle /\ MergeIdle /\ SourceIdle /\ AwsIdle /\ ClsIdle /\ GhIdle /\ ArnIdle /\ CoIdle /\ DetIdle /\ TwIdle /\ GcIdle

InitGc == GcInit /\ AccIdle /\ MergeIdle /\ SourceIdle /\ AwsIdle /\ ClsIdle /\ GhIdle /\ ArnIdle /\ CoIdle /\ DetIdle /\ RunIdle /\ TwIdle

NextCancel == AccNext \/ CallerCancel

\* concurrent collection from several accounts
SpecAccounts == InitAccounts /\ [][AccNext]_vars

\* the same, with a caller that may ask for the collection to be abandoned
SpecCancel == InitAccounts /\ [][NextCancel]_vars

FairSpecAccounts == SpecAccounts /\ AccFairness

\* MergeInventories on every bounded list of inventories
SpecMerge == InitMerge /\ [][CallMerge]_vars

\* CollectFromSource on every bounded answer of a data source
SpecSource == InitSource /\ [][CallCollectFromSource]_vars

\* aws DataSource.Collect against every bounded paginated backend
SpecAws == InitAws /\ [][AwsNext]_vars

\* page lists of every length up to MaxPages that go round the sample pages,
\* starting at each of them
PageRounds ==
    LET round == << <<mWeb, mEksCluster>>, <<mNodegroup, mEmptyOwner>>, <<>>,
                    <<mEksLegacy, mNilValue, mWeb>> >>
    IN { [k \in 1..n |-> round[((start + k - 2) % Len(round)) + 1]] :
           n \in 1..MaxPages, start \in 1..Len(round) }

InitAwsRounds == InitAws /\ awsPages \in PageRounds

\* the collection on those page lists, where a Collect that can take a step
\* eventually takes one
FairSpecAws == InitAwsRounds /\ [][AwsNext]_vars /\ WF_vars(AwsNext)

\* either Collect: the aws one against every bounded paginated backend or the
\* github one on every bounded list of repositories
InitCollects == InitAws \/ InitGitHub

CollectsNext == AwsNext \/ GhNext

SpecCollects == InitCollects /\ [][CollectsNext]_vars

\* the cloud-tag classifiers on every tag map tried
SpecClassify == InitClassify /\ [][ClsNext]_vars

\* github DataSource.Collect on every bounded list of repositories
SpecGitHub == InitGitHub /\ [][GhNext]_vars

\* extractPlatformFromARN on every identifier built from the tried segments
SpecArn == InitArn /\ [][ApplyExtractPlatform]_vars

\* the Detector's methods on every bounded file listing
SpecDet == InitDet /\ [][DetNext]_vars

\* ParseCodeOwners on every text built from the tried lines
SpecCo == InitCo /\ [][ApplyParseCodeOwners]_vars

\* every tried raw record classified twice
SpecTw == InitTw /\ [][TwNext]_vars

\* func main of either program on every bounded outcome of its collection
SpecRun == InitRun /\ [][RunNext]_vars

\* either getCodeOwnersContent on every listing and every answer of GetFileContent tried
SpecGc == InitGc /\ [][GcNext]_vars

\* ------------------------------------------------------------------ claims
\* targets whose backend refused the client or the listing
Failing == {i \in DOMAIN accountNames :
              backend[i].newClientErr # Nil \/ backend[i].getResourcesErr # Nil}

Succeeding == DOMAIN accountNames \ Failing

\* total number of resources over a list of inventories
RECURSIVE TotalResources(_)
TotalResources(invs) ==
    IF invs = <<>> THEN 0
    ELSE Len(Head(invs).Resources) + TotalResources(Tail(invs))

\* number of resources the backend listed for the targets 1..n that succeed
RECURSIVE ListedUpTo(_)
ListedUpTo(n) ==
    IF n = 0 THEN 0
    ELSE (IF n \in Succeeding THEN Len(backend[n].resources) ELSE 0) + ListedUpTo(n - 1)

\* the inventory a succeeding target must contribute: one record per listed
\* resource, of that account, in the listed order
ExpectedInventory(i) ==
    /\ \E k \in DOMAIN inventories :
         /\ Len(inventories[k].Resources) = Len(backend[i].resources)
         /\ \A r \in DOMAIN backend[i].resources :
              /\ inventories[k].Resources[r].ARN = backend[i].resources[r].ARN
              /\ inventories[k].Resources[r].Account = accountNames[i]

\* C1: when CollectFromAccounts has returned, it has returned one inventory
\* per succeeding target and one error per failing target, every failing
\* target's account is named by as many errors as targets of that name fail,
\* and the inventories hold as many resources as the backend listed for the
\* succeeding targets.
C1_OneResultPerTarget ==
    mpc = "returned" =>
        /\ Len(inventories) = Cardinality(Succeeding)
        /\ Len(errors) = Cardinality(Failing)
        /\ Len(inventories) + Len(errors) = Len(accountNames)
        /\ \A i \in Failing :
              Cardinality({k \in DOMAIN errors :
                             Contains(errors[k], "account '" \o accountNames[i] \o "'")})
              = Cardinality({j \in Failing : accountNames[j] = accountNames[i]})
        /\ \A i \in Succeeding : ExpectedInventory(i)
        /\ TotalResources(inventories) = ListedUpTo(Len(accountNames))

\* three targets, the second failing, the others listing a resource each
C1_Witness ==
    /\ mpc = "returned"
    /\ Len(accountNames) = 3
    /\ Failing = {2}
    /\ Len(backend[1].resources) = 1
    /\ Len(backend[3].resources) = 1
    /\ Len(errors) = 1
    /\ TotalResources(inventories) = 2

\* C2: under fair scheduling CollectFromAccounts eventually returns, and it
\* has returned only when every worker has sent its result (and none of
\* them hit a closed channel), however many targets fail.
C2_ReturnsAfterAllDelivered ==
    /\ <>(mpc = "returned")
    /\ [](mpc = "returned" =>
            /\ \A i \in DOMAIN accountNames : wpc[i] \in {"exit", "done"}
            /\ ~panicked)

\* every one of at least two targets failed and the call has returned
C2_Witness ==
    /\ mpc = "returned"
    /\ Len(accountNames) >= 2
    /\ Failing = DOMAIN accountNames
    /\ Len(errors) = Len(accountNames)

\* C3: every worker that was inside its backend call when the caller
\* cancelled reports a context-cancellation error.
C3_CancelFailsInFlightWorkers ==
    \A i \in inFlightAtCancel :
        wpc[i] # "collect" => Contains(wres[i].err, "context canceled")

\* number of resources in the inventories before the i-th of mergeInput
RECURSIVE Offset(_)
Offset(i) ==
    IF i <= 1 THEN 0 ELSE Offset(i - 1) + Len(mergeInput[i - 1].Resources)

\* C4: the merged inventory is as long as the inputs together, and the j-th
\* record of the i-th input sits at position Offset(i) + j: blocks in input
\* order, order kept inside a block, nothing dropped or deduplicated.
C4_MergeIsConcatenation ==
    mergePc = "done" =>
        /\ Len(merged.Resources) = Offset(Len(mergeInput) + 1)
        /\ \A i \in DOMAIN mergeInput :
             \A j \in DOMAIN mergeInput[i].Resources :
                 merged.Resources[Offset(i) + j] = mergeInput[i].Resources[j]

\* inventories of sizes 2 and 3 that share a record merge to size 5
C4_Witness ==
    /\ mergePc = "done"
    /\ Len(mergeInput) = 2
    /\ Len(mergeInput[1].Resources) = 2
    /\ Len(mergeInput[2].Resources) = 3
    /\ mergeInput[1].Resources[1] = mergeInput[2].Resources[3]
    /\ mergeInput[1].Resources[1] # mergeInput[1].Resources[2]
    /\ Len(merged.Resources) = 5

\* C5: after CollectFromSource, a successful Collect gives an inventory
\* holding exactly the collected sequence and a nil error; a failed Collect
\* gives no inventory and the error "<Name()>: <original error>".
C5_CollectFromSourceWraps ==
    sourcePc = "done" =>
        IF sourceCollect.err = Nil
        THEN /\ sourceResult.err = Nil
             /\ sourceResult.inventory # NilInventory
             /\ sourceResult.inventory.Resources = sourceCollect.resources
        ELSE /\ sourceResult.inventory = NilInventory
             /\ HasPrefix(sourceResult.err, sourceName \o ": ")
             /\ SubSeq(sourceResult.err, Len(sourceName) + 3, Len(sourceResult.err))
                  = sourceCollect.err

\* the GitHub source failed to list repositories and the error came back wrapped
C5_Witness ==
    /\ sourcePc = "done"
    /\ sourceName = "GitHub"
    /\ sourceCollect.err = "collect failed to list repositories: 401"
    /\ sourceResult.err = "GitHub: collect failed to list repositories: 401"
    /\ sourceResult.inventory = NilInventory

\* C6: every record the AWS Collect returns has a non-empty Owner and a
\* non-empty Team, whatever tag values the backend delivered.
C6_OwnerTeamNeverEmpty ==
    awsPc = "done" =>
        \A k \in DOMAIN awsCollected :
            awsCollected[k].Owner # "" /\ awsCollected[k].Team # ""

\* the classifier has run on the tag map
Classified == clsPc \in {"enrichResource", "enrichResources"}

\* C7: a tag map with neither owned-by nor team is classified with
\* Owner = "Unknown" and Team = "Unknown", whatever else it holds.
C7_NoOwnerTagsGiveUnknown ==
    (Classified /\ ~Has(clsRes.Tags, "owned-by") /\ ~Has(clsRes.Tags, "team")) =>
        clsInfo.Owner = "Unknown" /\ clsInfo.Team = "Unknown"

\* a tag map holding only other tags has been classified
C7_Witness ==
    /\ clsPc = "enrichResource"
    /\ DOMAIN clsRes.Tags = {"Name", "env"}
    /\ clsInfo.Owner = "Unknown"
    /\ clsInfo.Team = "Unknown"

\* C8: only team present: Owner = Team = the team value; only owned-by
\* present: Owner = Team = the owned-by value; both present: Owner is the
\* owned-by value and Team the team value.
C8_CrossFallback ==
    Classified =>
        /\ (Has(clsRes.Tags, "team") /\ ~Has(clsRes.Tags, "owned-by")) =>
              clsInfo.Owner = clsRes.Tags["team"] /\ clsInfo.Team = clsRes.Tags["team"]
        /\ (Has(clsRes.Tags, "owned-by") /\ ~Has(clsRes.Tags, "team")) =>
              /\ clsInfo.Owner = clsRes.Tags["owned-by"]
              /\ clsInfo.Team = clsRes.Tags["owned-by"]
        /\ (Has(clsRes.Tags, "owned-by") /\ Has(clsRes.Tags, "team")) =>
              /\ clsInfo.Owner = clsRes.Tags["owned-by"]
              /\ clsInfo.Team = clsRes.Tags["team"]

\* a tag map with team = "core" and no owned-by has been classified
C8_Witness ==
    /\ clsPc = "enrichResource"
    /\ Has(clsRes.Tags, "team")
    /\ ~Has(clsRes.Tags, "owned-by")
    /\ clsRes.Tags["team"] = "core"
    /\ clsInfo.Owner = "core"
    /\ clsInfo.Team = "core"

\* the tag keys that mark a resource of a managed Kubernetes cluster
EksTagKeys == {"aws:eks:cluster-name", "eks:cluster-name", "eks:nodegroup-name"}

\* the mapping carries one of those keys with a value
CarriesEksTag(mapping) ==
    \E t \in DOMAIN mapping.Tags :
        mapping.Tags[t].Key \in EksTagKeys /\ mapping.Tags[t].Value # Nil

\* the mappings of all pages, in page order
RECURSIVE AllMappings(_)
AllMappings(pages) ==
    IF pages = <<>> THEN <<>> ELSE Head(pages) \o AllMappings(Tail(pages))

\* C10: when the AWS collection succeeds, no returned record has one of the
\* EKS keys in its tag map, and the returned records are those of all the
\* mappings, on any page, that carry none of them.
C10_EksRecordsDropped ==
    (awsPc = "done" /\ awsErr = Nil) =>
        LET kept == SelectSeq(AllMappings(awsPages), LAMBDA m : ~CarriesEksTag(m)) IN
          /\ \A k \in DOMAIN awsCollected :
                DOMAIN awsCollected[k].ResourceTags \cap EksTagKeys = {}
          /\ Len(awsCollected) = Len(kept)
          /\ \A k \in DOMAIN kept : awsCollected[k].ARN = kept[k].ResourceARN

\* a nodegroup record arrived on the second page and was dropped, while the
\* other record of that page was returned
C10_Witness ==
    /\ awsPc = "done"
    /\ awsErr = Nil
    /\ Len(awsPages) >= 2
    /\ awsPages[2] = <<mNodegroup, mEmptyOwner>>
    /\ \E k \in DOMAIN awsCollected : awsCollected[k].ARN = mEmptyOwner.ResourceARN
    /\ \A k \in DOMAIN awsCollected : awsCollected[k].ARN # mNodegroup.ResourceARN

\* directories and files that mark a repository deployed to managed Kubernetes
EksDirs == {"k8s", "kubernetes", ".kube", "helm"}

EksFiles == {"Chart.yaml", "kustomization.yaml", "kustomization.yml"}

\* the path is such a directory, lies under one, or is such a file
IsIndicatorPath(path) ==
    \/ path \in EksDirs \cup EksFiles
    \/ \E d \in EksDirs : HasPrefix(path, d \o "/")

\* the listing holds an indicator path
HasEksIndicator(files) == \E k \in DOMAIN files : IsIndicatorPath(files[k])

\* C9: at no point do the resources of Collect hold a record of a listed
\* repository whose file listing holds a managed-Kubernetes indicator path.
C9_EksReposNeverReturned ==
    \A i \in DOMAIN ghRepos :
        HasEksIndicator(ghRepos[i].Files) =>
            \A k \in DOMAIN ghResources : ghResources[k].GitHubRepo # ghRepos[i].Name

\* Collect returned the record of a plain repository and none for a listed
\* repository with a path under helm/ beside CI, test and CODEOWNERS files
C9_Witness ==
    /\ ghPc = "done"
    /\ ghErr = Nil
    /\ \E i \in DOMAIN ghRepos :
         /\ ghRepos[i].Name = "charts"
         /\ DetectCodeOwners(ghRepos[i].Files)
         /\ DetectTests(ghRepos[i].Files).found
    /\ Len(ghResources) = 1
    /\ ghResources[1].GitHubRepo = "api"

\* C15: the AppName of a classified cloud record is the value of the Name
\* tag when the key is present, else the value of the
\* aws:cloudformation:logical-id tag when that key is present, else "Unknown".
C15_AppNameCascade ==
    Classified =>
        /\ Has(clsRes.Tags, "Name") => clsInfo.AppName = clsRes.Tags["Name"]
        /\ (~Has(clsRes.Tags, "Name") /\ Has(clsRes.Tags, "aws:cloudformation:logical-id"))
              => clsInfo.AppName = clsRes.Tags["aws:cloudformation:logical-id"]
        /\ (~Has(clsRes.Tags, "Name") /\ ~Has(clsRes.Tags, "aws:cloudformation:logical-id"))
              => clsInfo.AppName = "Unknown"

\* a record with both tags, of different values, took the Name tag
C15_Witness ==
    /\ clsPc = "enrichResource"
    /\ Has(clsRes.Tags, "Name")
    /\ Has(clsRes.Tags, "aws:cloudformation:logical-id")
    /\ clsRes.Tags["Name"] = "alice"
    /\ clsRes.Tags["aws:cloudformation:logical-id"] = "core"
    /\ clsInfo.AppName = "alice"

\* C16: a classified cloud record with the aws:cloudformation:stack-name tag
\* has that tag's value as StackName and HasCICD true; one without the tag
\* has StackName "None" and HasCICD false.
C16_StackTagDecidesCICD ==
    Classified =>
        IF Has(clsRes.Tags, "aws:cloudformation:stack-name")
        THEN /\ clsInfo.StackName = clsRes.Tags["aws:cloudformation:stack-name"]
             /\ clsInfo.HasCICD = TRUE
        ELSE /\ clsInfo.StackName = "None"
             /\ clsInfo.HasCICD = FALSE

\* a record whose stack tag is present with the empty string as value
C16_Witness ==
    /\ clsPc = "enrichResource"
    /\ Has(clsRes.Tags, "aws:cloudformation:stack-name")
    /\ clsRes.Tags["aws:cloudformation:stack-name"] = ""
    /\ clsInfo.StackName = ""
    /\ clsInfo.HasCICD = TRUE

\* the friendly name of a service of the fixed table
FriendlyName(service) ==
    CASE service = "ec2" -> "EC2"
      [] service = "lambda" -> "Lambda"
      [] service = "ecs" -> "ECS"
      [] service = "elasticbeanstalk" -> "Elastic Beanstalk"
      [] service = "lightsail" -> "Lightsail"
      [] service = "apprunner" -> "App Runner"
      [] OTHER -> service

\* C17: the platform of an identifier is "unknown" when it has fewer than
\* three colon-separated segments; otherwise it is the friendly name of the
\* third segment when the table has it, and the third segment itself when not.
C17_PlatformFromThirdSegment ==
    arnPc = "done" =>
        LET segments == Split(arnInput, ":") IN
          IF Len(segments) < 3 THEN arnPlatform = "unknown"
          ELSE arnPlatform = FriendlyName(segments[3])

\* the colon-separated segments of an identifier, an empty piece after the
\* last colon not counted
SegmentsOf(arn) ==
    LET pieces == Split(arn, ":") IN
      IF pieces[Len(pieces)] = "" THEN SubSeq(pieces, 1, Len(pieces) - 1) ELSE pieces

\* C17, amended: with an empty piece after the last colon not counted as a
\* segment, the platform is "unknown" for fewer than three segments, else the
\* friendly name of the third segment when the table has it, else that segment.
C17_PlatformFromThirdSegmentAmended ==
    arnPc = "done" =>
        IF Len(SegmentsOf(arnInput)) < 3 THEN arnPlatform = "unknown"
        ELSE arnPlatform = FriendlyName(SegmentsOf(arnInput)[3])

\* an identifier of two segments and a closing colon was given "unknown"
C17_Witness ==
    /\ arnPc = "done"
    /\ arnInput = "arn:aws:"
    /\ arnPlatform = "unknown"

\* some path of the listing is an indicator of the set or begins with one
MatchesSet(files, indicators) ==
    \E f \in DOMAIN files : \E i \in DOMAIN indicators :
        files[f] = indicators[i] \/ HasPrefix(files[f], indicators[i])

\* the labels of the indicator sets the listing matches, in the fixed order
MatchedLabels(files) ==
    (IF MatchesSet(files, ecsIndicators) THEN <<"ECS">> ELSE <<>>)
    \o (IF MatchesSet(files, lambdaIndicators) THEN <<"Lambda">> ELSE <<>>)
    \o (IF MatchesSet(files, beanstalkIndicators) THEN <<"Elastic Beanstalk">> ELSE <<>>)

\* C11: for a listing that matches two or more indicator sets, DetectPlatform
\* returns the labels of the matched sets joined by ", " in the order ECS,
\* Lambda, Elastic Beanstalk (so the order of the paths plays no part).
C11_MatchedLabelsInFixedOrder ==
    (detPc = "DetectPlatform" /\ Len(MatchedLabels(detFiles)) >= 2) =>
        detOut.text = Join(MatchedLabels(detFiles), ", ")

\* how often the text holds the label
Occurrences(text, label) ==
    Cardinality({i \in 1..Len(text) :
                   /\ i + Len(label) - 1 <= Len(text)
                   /\ SubSeq(text, i, i + Len(label) - 1) = label})

\* C12: DetectPlatform returns "Unknown" exactly when the listing matches
\* none of the three indicator sets, and otherwise the label of every matched
\* set occurs exactly once in the result.
C12_EachMatchedSetOnce ==
    detPc = "DetectPlatform" =>
        /\ (detOut.text = "Unknown") <=> (MatchedLabels(detFiles) = <<>>)
        /\ \A k \in DOMAIN MatchedLabels(detFiles) :
               Occurrences(detOut.text, MatchedLabels(detFiles)[k]) = 1

\* the path is the indicator or begins with it
MatchesIndicator(path, pattern) == path = pattern \/ HasPrefix(path, pattern)

\* the places of the listing whose path matches some indicator of the table
CicdPlaces(files) ==
    {k \in DOMAIN files : \E e \in cicdFiles : MatchesIndicator(files[k], e.pattern)}

\* C18: DetectCICD returns (false, "") when no path of the listing matches an
\* indicator of the table; otherwise it returns true and the platform of the
\* indicator that the earliest matching path of the listing matches.
C18_EarliestMatchingPathDecides ==
    detPc = "DetectCICD" =>
        IF CicdPlaces(detFiles) = {}
        THEN detOut = [found |-> FALSE, text |-> ""]
        ELSE LET first == CHOOSE k \in CicdPlaces(detFiles) :
                              \A j \in CicdPlaces(detFiles) : k <= j
             IN /\ detOut.found = TRUE
                /\ \A e \in cicdFiles :
                       MatchesIndicator(detFiles[first], e.pattern)
                           => detOut.text = e.platform

\* a listing with two CI/CD paths, a workflow below the directory indicator
\* after a Jenkinsfile: Jenkins is reported
C18_Witness ==
    /\ detPc = "DetectCICD"
    /\ Len(detFiles) = 3
    /\ detFiles[1] = "README.md"
    /\ detFiles[2] = "Jenkinsfile"
    /\ detFiles[3] = ".github/workflows/ci.yml"
    /\ detOut = [found |-> TRUE, text |-> "Jenkins"]

\* names of the known test directories
TestDirNames == {"test", "tests", "__tests__", "spec", "test_suite", "testing"}

\* the path is a known test directory or lies under one
IsTestDir(path) ==
    path \in TestDirNames \/ \E d \in TestDirNames : HasPrefix(path, d \o "/")

\* the path contains a known test-file pattern
IsTestFile(path) ==
    \E pattern \in {"_test.go", ".spec.js", ".test.js", ".spec.ts", ".test.ts",
                    "Test.java", "test_"} : Contains(path, pattern)

\* C19: DetectTests returns (true, "detected test directory") when some path
\* is a known test directory, test files or not; else (true, "detected test
\* files") when some path contains a test-file pattern; else (false, "").
C19_TwoStageTestDetection ==
    detPc = "DetectTests" =>
        detOut = IF \E k \in DOMAIN detFiles : IsTestDir(detFiles[k])
                 THEN [found |-> TRUE, text |-> "detected test directory"]
                 ELSE IF \E k \in DOMAIN detFiles : IsTestFile(detFiles[k])
                 THEN [found |-> TRUE, text |-> "detected test files"]
                 ELSE [found |-> FALSE, text |-> ""]

\* a test file listed before a test directory: the directory is reported
C19_Witness ==
    /\ detPc = "DetectTests"
    /\ Len(detFiles) = 2
    /\ detFiles[1] = "main_test.go"
    /\ detFiles[2] = "test/unit.py"
    /\ detOut = [found |-> TRUE, text |-> "detected test directory"]

\* the owner a token stands for: the rest after a leading "@", or the whole
\* token when it holds an "@" elsewhere; <<>> when the token names no owner
OwnerOfToken(token) ==
    IF HasPrefix(token, "@") THEN <<SubSeq(token, 2, Len(token))>>
    ELSE IF Contains(token, "@") THEN <<token>>
    ELSE <<>>

\* the owners named by the tokens, in order
RECURSIVE OwnersOfTokens(_)
OwnersOfTokens(tokens) ==
    IF tokens = <<>> THEN <<>>
    ELSE OwnerOfToken(Head(tokens)) \o OwnersOfTokens(Tail(tokens))

\* the owners named on the lines: blank lines and lines starting with "#"
\* name none, on any other line the first token is discarded
RECURSIVE OwnersNamed(_)
OwnersNamed(lines) ==
    IF lines = <<>> THEN <<>>
    ELSE LET line == TrimSpace(Head(lines)) IN
           (IF line = "" \/ HasPrefix(line, "#") THEN <<>>
            ELSE OwnersOfTokens(Tail(Fields(line))))
           \o OwnersNamed(Tail(lines))

\* the sequence with every element kept at its first occurrence only
RECURSIVE FirstOccurrences(_)
FirstOccurrences(seq) ==
    IF seq = <<>> THEN <<>>
    ELSE LET before == FirstOccurrences(SubSeq(seq, 1, Len(seq) - 1))
             last   == seq[Len(seq)]
         IN IF \E k \in DOMAIN before : before[k] = last
            THEN before ELSE Append(before, last)

\* C14: ParseCodeOwners returns, once each and in order of first occurrence,
\* the owners named by the tokens after the first one on every line that is
\* neither blank nor a comment: a token starting with "@" without the "@",
\* a token containing "@" unchanged.
C14_OwnersOfCodeOwnersText ==
    coPc = "done" =>
        coOwners = FirstOccurrences(OwnersNamed(Split(coContent, "\n")))

\* C20: a GitHub record with a non-empty list of parsed owners has the first
\* of them as Owner and as Team; every other record has "Unknown" as both.
C20_FirstOwnerOrUnknown ==
    \A k \in DOMAIN ghResources :
        LET r == ghResources[k] IN
          IF Len(r.CodeOwners) > 0
          THEN r.Owner = r.CodeOwners[1] /\ r.Team = r.CodeOwners[1]
          ELSE r.Owner = "Unknown" /\ r.Team = "Unknown"

\* C20, amended: a GitHub record whose list of parsed owners is non-empty and
\* begins with a non-empty owner has that owner as Owner and as Team; every
\* other record (no CODEOWNERS, fetch failed, no owner parsed, or a first
\* owner that is the empty string) has "Unknown" as both.
C20_FirstOwnerOrUnknownAmended ==
    \A k \in DOMAIN ghResources :
        LET r == ghResources[k] IN
          IF Len(r.CodeOwners) > 0 /\ r.CodeOwners[1] # ""
          THEN r.Owner = r.CodeOwners[1] /\ r.Team = r.CodeOwners[1]
          ELSE r.Owner = "Unknown" /\ r.Team = "Unknown"

\* Collect returned one record that took its first parsed owner and one
\* whose only parsed owner is the empty string
C20_Witness ==
    /\ ghPc = "done"
    /\ Len(ghResources) = 2
    /\ ghResources[1].HasCodeOwners
    /\ ghResources[1].CodeOwners = <<"alice", "bob">>
    /\ ghResources[1].Owner = "alice"
    /\ ghResources[1].Team = "alice"
    /\ ghResources[2].HasCodeOwners
    /\ ghResources[2].CodeOwners = <<"">>
    /\ ghResources[2].Owner = "Unknown"
    /\ ghResources[2].Team = "Unknown"

\* C13: classifying one raw record twice (a tag map and identifier, or a
\* file listing and CODEOWNERS text) gives the same ResourceInfo both times,
\* whatever the order in which each run ranges over the CI/CD table.
C13_SameRecordSameInfo ==
    twPc = "done" => twFirst = twSecond

\* a repository with two CI/CD paths and a CODEOWNERS file analyzed twice
C13_Witness ==
    /\ twPc = "done"
    /\ twRaw.kind = "repo"
    /\ twRaw.repo.Files = <<".github/workflows/ci.yml", "Jenkinsfile", "CODEOWNERS">>
    /\ twRaw.content # ""
    /\ twFirst.CICDPlatform = "GitHub Actions"
    /\ twFirst.Owner = "alice"
    /\ twSecond = twFirst

\* the CODEOWNERS lookup of the k-th call of analyzeRepository failed
LookupFailed(k) == ghLookups[k].called /\ ghLookups[k].err # Nil

\* the record is that of the repository with only defaults for ownership
DefaultOwnership(record, repo) ==
    /\ record.GitHubRepo = repo.Name
    /\ record.Owner = "Unknown"
    /\ record.Team = "Unknown"
    /\ record.CodeOwners = <<>>

\* C21: a failed CODEOWNERS lookup for a repository (not found at any
\* location, or another error) leaves Collect without an error, the
\* repository's record is returned with Owner and Team "Unknown" and no
\* CodeOwners, and no step removes or alters a record already collected.
C21_LookupFailureKeepsBatch ==
    /\ [](\A k \in DOMAIN ghLookups :
            LookupFailed(k) =>
                /\ ghErr = Nil
                /\ k \in DOMAIN ghResources
                /\ DefaultOwnership(ghResources[k], ghRepos[ghLookups[k].idx]))
    /\ [][\A k \in DOMAIN ghResources :
            k \in DOMAIN ghResources' /\ ghResources'[k] = ghResources[k]]_vars

\* Collect returned two records: the lookup of the first failed with an
\* API error, the second took its owner from CODEOWNERS
C21_Witness ==
    /\ ghPc = "done"
    /\ ghErr = Nil
    /\ Len(ghResources) = 2
    /\ LookupFailed(1)
    /\ ghLookups[1].err = "[getCodeOwnersContent] API error at CODEOWNERS: 500"
    /\ DefaultOwnership(ghResources[1], ghRepos[ghLookups[1].idx])
    /\ ghResources[2].Owner = "alice"

\* the identifiers of the records, in order
ARNsOf(records) == [k \in DOMAIN records |-> records[k].ARN]

\* the identifiers of the non-excluded mappings of all pages, in page order
\* and in the order within each page
ExpectedARNs ==
    LET kept == SelectSeq(AllMappings(awsPages), LAMBDA m : ~CarriesEksTag(m)) IN
      [k \in DOMAIN kept |-> kept[k].ResourceARN]

\* C22: the collection terminates; its first request carries no token and
\* every later one the token of the response before it; when no call failed
\* every page was requested and the returned records are the non-excluded
\* records of all pages, in page order and in within-page order.
C22_PaginationToExhaustion ==
    /\ <>(awsPc = "done")
    /\ [](\A k \in DOMAIN awsRequests :
            awsRequests[k] = IF k = 1 THEN Nil ELSE TokenAfter(k - 1))
    /\ []((awsPc = "done" /\ awsErr = Nil) =>
            /\ Len(awsRequests) = Len(awsPages)
            /\ ARNsOf(awsCollected) = ExpectedARNs)

\* three pages, the second of them empty, were all requested and the records
\* of the first and the third returned in order
C22_Witness ==
    /\ awsPc = "done"
    /\ awsErr = Nil
    /\ Len(awsPages) = 3
    /\ awsPages[1] = <<mNodegroup, mEmptyOwner>>
    /\ awsPages[2] = <<>>
    /\ awsPages[3] = <<mEksLegacy, mNilValue, mWeb>>
    /\ awsRequests = <<Nil, Token(2), Token(3)>>
    /\ ARNsOf(awsCollected)
         = <<mEmptyOwner.ResourceARN, mNilValue.ResourceARN, mWeb.ResourceARN>>


\* ---------------------------------------------------------------------------
\* C23: the error of a Collect is set only by a failing backend call (creating
\* the client, fetching a page, listing the repositories), and a Collect that
\* returned an error returned no record, whatever earlier pages gave; turning
\* the fetched resources into records sets no error.
C23_ErrorOnlyOnBackendFailure ==
    /\ []((awsPc = "done" /\ awsErr # Nil) => awsCollected = <<>>)
    /\ []((ghPc = "done" /\ ghErr # Nil) => ghResources = <<>>)
    /\ [][awsErr' # awsErr => (NewClientFail \/ FetchFail)]_vars
    /\ [][ghErr' # ghErr => ListRepositoriesFail]_vars
    /\ [][(awsPc = "enrich" \/ ghPc = "loop") => (awsErr' = Nil /\ ghErr' = Nil)]_vars

\* the fetch of the second page failed after a first page with a record that
\* lacks its Owner tag; nothing is returned
C23_Witness ==
    /\ awsPc = "done"
    /\ awsErr = "failed to get resources: "
                \o "getResources: failed to get resources: throttled"
    /\ awsRequests = <<Nil, Token(2)>>
    /\ awsPages[1] = <<mNodegroup, mEmptyOwner>>
    /\ keepNonEKS(awsPages[1], awsAccount) # <<>>
    /\ awsCollected = <<>>


\* ---------------------------------------------------------------------------
\* the resources of every target that succeeded
FinalResources == MergeInventories(runResults).Resources

\* the run ended fatal over its output: an unknown format or a failed write
FatalOverOutput ==
    \/ HasPrefix(runFatal, "Error: Unknown format")
    \/ HasPrefix(runFatal, "Failed to write output")

\* no target succeeded means a fatal end: a run gets past its collection only
\* with the inventory of a target
NoSuccessIsFatal ==
    [](runPc \in {"writer", "write", "exit"} => runResults # <<>>)

\* the errors of the targets of a multi-account run are printed as warnings,
\* one each, and with the inventory of one target the check lets the run go
\* on to its writer with the merged inventory
ErrorsAreWarnings ==
    /\ []((runMain = "accounts" /\ runPc # "collect")
            => /\ Len(runWarnings) = Count([k \in DOMAIN runArrivals |-> runArrivals[k].err # Nil], TRUE)
               /\ \A k \in DOMAIN runWarnings : runWarnings[k] = "Warning: " \o runErrors[k])
    /\ [][(runMain = "accounts" /\ runPc = "check" /\ runResults # <<>>)
            => (runPc' = "writer" /\ runInventory' = MergeInventories(runResults))]_vars

\* C24: a run is in the fatal state only with no resource in the inventories
\* of its targets, a run none of whose targets succeeded ends fatal, and the
\* errors of single targets are warnings that do not stop a multi-account run
\* one of whose targets succeeded.
C24_FatalOnlyWhenEmpty ==
    /\ [](runPc = "fatal" => FinalResources = <<>>)
    /\ NoSuccessIsFatal
    /\ ErrorsAreWarnings

\* C24, amended: a run is in the fatal state for another reason than its
\* output (an unknown format, a failed write) only with no resource in the
\* inventories of its targets; a run none of whose targets succeeded ends
\* fatal; the errors of single targets are warnings that do not stop a
\* multi-account run one of whose targets succeeded.
C24_FatalOnlyWhenEmptyAmended ==
    /\ []((runPc = "fatal" /\ ~FatalOverOutput) => FinalResources = <<>>)
    /\ NoSuccessIsFatal
    /\ ErrorsAreWarnings

\* a multi-account run whose first target failed and whose second gave a
\* resource ended well with one warning and that resource
C24_Witness ==
    /\ runMain = "accounts"
    /\ runPc = "exit"
    /\ Len(runArrivals) = 2
    /\ runArrivals[1].err # Nil
    /\ Len(runWarnings) = 1
    /\ Len(runResults) = 1
    /\ Len(runInventory.Resources) = 1


\* ---------------------------------------------------------------------------
\* workers whose send has completed
HaveSent == {i \in DOMAIN accountNames : wpc[i] \in {"exit", "done"}}

\* C25: the result channel never holds more results than there are targets;
\* the results sent so far are as many as the workers past their send, one
\* each; a worker at its send finds the channel open and with room, so the
\* send does not block; the channel is closed only when every worker has
\* sent, and is not closed again; no send hits a closed channel; and until
\* CollectFromAccounts has returned some goroutine can take a step.
C25_ChannelProtocol ==
    /\ [](/\ Len(results) <= Len(accountNames)
          /\ ChanCap(accountNames) = Len(accountNames)
          /\ Len(results) + Len(inventories) + Len(errors) = Cardinality(HaveSent)
          /\ \A i \in DOMAIN accountNames :
                wpc[i] = "send" => (~closed /\ Len(results) < ChanCap(accountNames))
          /\ (cpc \in {"close", "done"} \/ closed) => HaveSent = DOMAIN accountNames
          /\ closed <=> cpc = "done"
          /\ ~panicked
          /\ mpc # "returned" => ENABLED AccNext)
    /\ [][closed => (closed' /\ cpc' = cpc)]_vars

\* every one of three workers has sent before the range loop received
\* anything: the channel is full and still open
C25_Witness ==
    /\ Len(accountNames) = 3
    /\ HaveSent = DOMAIN accountNames
    /\ Len(results) = 3
    /\ inventories = <<>> /\ errors = <<>>
    /\ ~closed
    /\ mpc = "range"


\* ---------------------------------------------------------------------------
\* C26: no repository IsEKS reports is ever analyzed, so no GetFileContent
\* call is made for it: the analyses made so far are those of the
\* repositories gone through that IsEKS does not report, one per record.
C26_ExclusionBeforeAnalysis ==
    /\ \A i \in 1..ghIdx :
          IsEKS(ghRepos[i].Files) =>
              \A k \in DOMAIN ghLookups : ghLookups[k].idx # i
    /\ \A k \in DOMAIN ghLookups : ~HasEksIndicator(ghRepos[ghLookups[k].idx].Files)
    /\ Len(ghLookups) = Len(ghResources)

\* a repository with a path under helm/ and a CODEOWNERS file was listed
\* first and dropped; the only lookup made is that of the second repository
C26_Witness ==
    /\ ghPc = "done"
    /\ ghErr = Nil
    /\ Len(ghRepos) = 2
    /\ ghRepos[1].Name = "charts"
    /\ IsEKS(ghRepos[1].Files)
    /\ DetectCodeOwners(ghRepos[1].Files)
    /\ Len(ghLookups) = 1
    /\ ghLookups[1].idx = 2
    /\ ghLookups[1].calls = <<"CODEOWNERS", ".github/CODEOWNERS">>


\* ---------------------------------------------------------------------------
\* names of the first n listed repositories IsEKS does not report, in
\* listing order
RECURSIVE KeptNames(_)
KeptNames(n) ==
    IF n = 0 THEN <<>>
    ELSE KeptNames(n - 1)
         \o (IF IsEKS(ghRepos[n].Files) THEN <<>> ELSE <<ghRepos[n].Name>>)

\* C27: the records of Collect are those of the listed repositories gone
\* through that IsEKS does not report, one each and in listing order; a
\* Collect that returned without error went through the whole listing.
C27_OneRecordPerKeptRepository ==
    /\ [k \in DOMAIN ghResources |-> ghResources[k].GitHubRepo] = KeptNames(ghIdx)
    /\ Len(ghResources)
         = Cardinality({i \in 1..ghIdx : ~IsEKS(ghRepos[i].Files)})
    /\ (ghPc = "done" /\ ghErr = Nil) => ghIdx = Len(ghRepos)

\* two different repositories, neither reported by IsEKS, were listed and
\* Collect returned their records in that order
C27_Witness ==
    /\ ghPc = "done"
    /\ ghErr = Nil
    /\ Len(ghRepos) = 2
    /\ ghRepos[1].Name = "fn" /\ ghRepos[2].Name = "api"
    /\ Len(ghResources) = 2
    /\ ghResources[1].GitHubRepo = "fn" /\ ghResources[2].GitHubRepo = "api"


\* ---------------------------------------------------------------------------
\* the locations the lookup that was run goes through
LocationsOf(pc) == IF pc = "listed" THEN SubSeq(codeownersLocations, 1, 3)
                   ELSE codeownersLocations

\* positions of locs whose answer ends the lookup: content that is not
\* empty, or an error other than not found
Deciding(locs) ==
    {k \in DOMAIN locs :
        \/ gcFetch[locs[k]].status \notin {"ok", "404"}
        \/ gcFetch[locs[k]].status = "ok" /\ gcFetch[locs[k]].content # ""}

\* the least of a non-empty set of positions
Least(S) == CHOOSE k \in S : \A j \in S : k <= j

\* C28: a lookup goes through its locations in the fixed order up to the
\* first that answers with content that is not empty or with an error other
\* than not found, and through all of them when there is none; in the first
\* case it returns that content and no error, in the second an error, and no
\* later location is tried.
C28_FirstContentOrFirstError ==
    gcPc \in {"listed", "plain"} =>
        LET locs == LocationsOf(gcPc) IN
          IF Deciding(locs) = {}
          THEN gcOut.calls = locs /\ gcOut.err # Nil
          ELSE LET k == Least(Deciding(locs)) IN
                 /\ gcOut.calls = SubSeq(locs, 1, k)
                 /\ IF gcFetch[locs[k]].status = "ok"
                    THEN gcOut.err = Nil /\ gcOut.content = gcFetch[locs[k]].content
                    ELSE gcOut.err # Nil /\ gcOut.content = ""

\* the same of the lookup that does not take the listing
C28_PlainLookupOnly ==
    gcPc = "plain" => C28_FirstContentOrFirstError


\* ---------------------------------------------------------------------------
\* C29: a record with a non-empty CodeOwners has HasCodeOwners, and a record
\* whose Owner is not "Unknown" has a non-empty CodeOwners; a record of a
\* repository with a CODEOWNERS file whose lookup failed (no location could
\* be fetched, or every one was empty) or whose text names no owner has
\* HasCodeOwners and an empty CodeOwners.
C29_OwnershipFieldsAgree ==
    \A k \in DOMAIN ghResources :
        LET r      == ghResources[k]
            lookup == ghLookups[k]
        IN /\ Len(r.CodeOwners) > 0 => r.HasCodeOwners
           /\ r.Owner # "Unknown" => Len(r.CodeOwners) > 0
           /\ r.HasCodeOwners = lookup.called
           /\ (/\ lookup.called
               /\ \/ lookup.err # Nil
                  \/ OwnersNamed(Split(lookup.content, "\n")) = <<>>)
                => (r.HasCodeOwners /\ r.CodeOwners = <<>>)

\* Collect returned two records with HasCodeOwners and no owner: the file of
\* the first could not be fetched at its second location, that of the second
\* names nobody
C29_Witness ==
    /\ ghPc = "done"
    /\ Len(ghResources) = 2
    /\ \A k \in 1..2 : ghResources[k].HasCodeOwners /\ ghResources[k].CodeOwners = <<>>
    /\ ghLookups[1].err = "[getCodeOwnersContent] API error at .github/CODEOWNERS: 500"
    /\ ghLookups[2].err = Nil
    /\ ghLookups[2].content = "# owners\n\n*\n"


====
